---- MODULE Spec2Model ----
(***************************************************************************)
(* Retrieval-and-normalization engine of the bible bot: the retrying fetch *)
(* client (http_get_text / http_get_json), the TTL cache (cache_get /      *)
(* cache_set), the cached operations built on them and the citation       *)
(* parser (parse_ref).                                                     *)
(*                                                                         *)
(* Conventions.  Durations are in tenths of a second (0.7 s = 7).  The     *)
(* clock of the cache is in whole seconds.  A Python str that the code     *)
(* inspects character by character is a sequence of one-character values;  *)
(* a text that the code only splits into lines and words is a sequence of  *)
(* lines, each a sequence of words.  A wire body is a record               *)
(* [kind, val]: kind "json" when json.loads accepts it (val is the decoded *)
(* value), kind "html" otherwise (val is the sequence of markup nodes).    *)
(***************************************************************************)
EXTENDS Integers, Sequences, FiniteSets, TLC

VARIABLES
    fetchFn,    \* fetch client: the function being run, "http_get_text" or "http_get_json"
    fetchPc,    \* fetch client: "idle", "get" (top of the for loop), "sleep" (in asyncio.sleep), "done"
    attempt,    \* fetch client: the loop variable of `for attempt in range(3)`
    gets,       \* fetch client: number of s.get(url) issued by the call
    sleeps,     \* fetch client: the delays passed to asyncio.sleep, in call order
    seen,       \* fetch client: the outcome of every attempt, in call order
    fetchRet,   \* fetch client: the returned (status, body) pair, NoRet until the call returns
    cache,      \* _cache: key -> [t |-> time of cache_set, d |-> value]
    now,        \* time.time(), in seconds
    ticks,      \* number of clock advances so far (bounds the run)
    written,    \* history: key -> the [t, d] of the latest cache_set(key, ...)
    lastCall,   \* history: the latest cache_get / cache_set call and what it returned
    prog,       \* the program that runs: "bot.py" or "bot2.py"
    parseIn,    \* citation parser: the reference handed to parse_ref
    parseOut,   \* citation parser: what parse_ref returned, NotRun before the call
    procs,      \* cached operations: per coroutine, its call, its position and its locals
    served,     \* history: request -> [t, d] of its latest fetched result
    fhHits,     \* find_hebrew: len(hits)
    fhBad,      \* find_hebrew: the hits whose build_block raises
    fhI,        \* find_hebrew: the loop variable of `for i in range(0, len(hits), BATCH)`
    fhSub,      \* find_hebrew: hit number -> "pending", "running", "done", "failed" of its build_block
    fhPc,       \* find_hebrew: "idle", "loop" (head of the for loop), "gather", "view", "raised"
    fhBlocks,   \* find_hebrew: len(blocks)
    splitIn,    \* _split_for_embeds: its arguments
    splitOut,   \* _split_for_embeds: the returned chunks, NotSplit before the call
    srIn,       \* phrase search: the arguments of the call
    sr,         \* phrase search: its position, its locals, what it returned or raised; history: estimated, records, statuses
    hl,         \* highlighters: the function run, its arguments, and what it returned; history: matches
    fa,         \* fetch-all loops of !fh and !fp: the command, its position, its locals, its reply
    view        \* FHResultsView: its fields, the clock, and the last button press

fetchVars == <<fetchFn, fetchPc, attempt, gets, sleeps, seen, fetchRet>>

cacheVars == <<cache, now, ticks, written, lastCall>>

parseVars == <<parseIn, parseOut>>

opsVars == <<procs, served>>

batchVars == <<fhHits, fhBad, fhI, fhSub, fhPc, fhBlocks>>

splitVars == <<splitIn, splitOut>>

searchVars == <<srIn, sr>>

restVars == <<hl, fa, view>>

cmdVars == <<batchVars, splitVars, searchVars, restVars>>

vars == <<fetchVars, cacheVars, prog, parseVars, opsVars, cmdVars>>

(***************************************************************************)
(* Values                                                                  *)
(***************************************************************************)
\* Python's None as a body.
None == [kind |-> "None", val |-> <<>>]

\* A Python str holding a text, as its lines of characters; "" is Str(<<<<>>>>).
Str(lines) == [kind |-> "str", val |-> lines]

\* No pair returned yet.
NoRet == [status |-> 0, body |-> None, raised |-> FALSE]

Pair(status, body) == [status |-> status, body |-> body, raised |-> FALSE]

\* An exception that leaves the call.
Raised == [status |-> 0, body |-> None, raised |-> TRUE]

\* The literal "<blocked>" of http_get_text.
BLOCKED == [kind |-> "literal", val |-> "<blocked>"]

\* HTTP statuses the upstream answers with.
Statuses == {200, 403, 404, 429, 500, 502, 503, 504}

\* Bodies the upstream sends to a bare fetch call: "", a page, a JSON text.
FetchBodies ==
    { [kind |-> "html", val |-> <<>>],
      [kind |-> "html",
       val |-> <<[tag |-> "text", num |-> <<>>, inner |-> <<<<"T", "a", "k">>>>]>>],
      [kind |-> "json",
       val |-> [jt |-> "dict", data |-> [jt |-> "dict", content |-> <<<<"T", "a", "k">>>>]]] }

\* What one attempt meets: a response, or an exception inside the try block
\* (connection error, timeout, decoding error of r.text()).
Outcomes == [exc : {FALSE}, status : Statuses, body : FetchBodies]
            \cup {[exc |-> TRUE, status |-> 0, body |-> None]}

\* A value decoded by json.loads: [jt, v] with jt "null", "str", "int",
\* "list" or "dict"; v is the characters of a str, the number of an int,
\* the items of a list, the [k, v] items of a dict in payload order.
JNone == [jt |-> "null", v |-> <<>>]
JStr(s) == [jt |-> "str", v |-> s]
JInt(n) == [jt |-> "int", v |-> n]
JList(items) == [jt |-> "list", v |-> items]
JDict(items) == [jt |-> "dict", v |-> items]

\* One item of a dict.
KV(k, v) == [k |-> k, v |-> v]

(***************************************************************************)
(* Fetch client                                                            *)
(***************************************************************************)
\* for attempt in range(3)
MAX_ATTEMPTS == 3

\* asyncio.sleep(0.7 * (attempt + 1)) and asyncio.sleep(0.6 * (attempt + 1))
BACKOFF_TEXT == 7
BACKOFF_JSON == 6

\* Variant: the JSON client also retries 403.
RETRYABLE_JSON_With403 == {403, 429, 500, 502, 503, 504}

\* if r.status in (403, 503)   /   if r.status in (429, 500, 502, 503, 504)
RETRYABLE_TEXT == {403, 503}
RETRYABLE_JSON == {429, 500, 502, 503, 504}

\* Variant: 404 is retried like 403/503.
Retryable_With404(fn) ==
    IF fn = "http_get_text" THEN {403, 404, 503} ELSE {404, 429, 500, 502, 503, 504}

Retryable(fn) == IF fn = "http_get_text" THEN RETRYABLE_TEXT ELSE RETRYABLE_JSON

\* Variant: the same delay after every attempt.
Backoff_Constant(fn, att) ==
    IF fn = "http_get_text" THEN BACKOFF_TEXT ELSE BACKOFF_JSON

Backoff(fn, att) ==
    (IF fn = "http_get_text" THEN BACKOFF_TEXT ELSE BACKOFF_JSON) * (att + 1)

\* json.loads(txt): the decoded value, or None where the code catches the error.
JsonLoads(body) ==
    IF body.kind = "json" THEN [kind |-> "parsed", val |-> body.val] ELSE None

\* return r.status, text   /   return r.status, json.loads(txt)
SuccessPair(fn, o) ==
    IF fn = "http_get_text" THEN Pair(o.status, o.body)
    ELSE Pair(o.status, JsonLoads(o.body))

\* return r.status, text   /   return r.status, None
PermanentPair(fn, o) ==
    IF fn = "http_get_text" THEN Pair(o.status, o.body) ELSE Pair(o.status, None)

\* return 403, "<blocked>"   /   return 503, None
ExhaustedPair(fn) ==
    IF fn = "http_get_text" THEN Pair(403, BLOCKED) ELSE Pair(503, None)

\* Variant: no except block, the exception of an attempt leaves the call.
AttemptStep_Reraise(fn, att, o) ==
    IF o.exc THEN [next |-> "done", delay |-> 0, ret |-> Raised]
    ELSE IF o.status = 200 THEN [next |-> "done", delay |-> 0, ret |-> SuccessPair(fn, o)]
    ELSE IF o.status \in Retryable(fn)
        THEN [next |-> "sleep", delay |-> Backoff(fn, att), ret |-> NoRet]
    ELSE [next |-> "done", delay |-> 0, ret |-> PermanentPair(fn, o)]

\* What the body of the for loop does with the outcome of one attempt:
\* "return" a pair, or "sleep" and go round again.
AttemptStep(fn, att, o) ==
    IF o.exc THEN [next |-> "sleep", delay |-> Backoff(fn, att), ret |-> NoRet]
    ELSE IF o.status = 200 THEN [next |-> "done", delay |-> 0, ret |-> SuccessPair(fn, o)]
    ELSE IF o.status \in Retryable(fn)
        THEN [next |-> "sleep", delay |-> Backoff(fn, att), ret |-> NoRet]
    ELSE [next |-> "done", delay |-> 0, ret |-> PermanentPair(fn, o)]

\* Variant: the loop runs once more.
LoopRuns_OneMore(att) == att <= MAX_ATTEMPTS

\* The loop condition of `for attempt in range(3)`.
LoopRuns(att) == att < MAX_ATTEMPTS

\* A caller enters http_get_text(url) or http_get_json(url).
FetchCall(fn) ==
    /\ fetchPc = "idle"
    /\ fetchFn' = fn
    /\ fetchPc' = "get"
    /\ attempt' = 0
    /\ UNCHANGED <<gets, sleeps, seen, fetchRet>>
    /\ UNCHANGED <<cacheVars, prog, parseVars, opsVars, cmdVars>>

\* One pass of the loop body up to its return or its await asyncio.sleep.
FetchAttempt(o) ==
    /\ fetchPc = "get"
    /\ LoopRuns(attempt)
    /\ LET st == AttemptStep(fetchFn, attempt, o) IN
        /\ gets' = gets + 1
        /\ seen' = Append(seen, o)
        /\ fetchPc' = st.next
        /\ sleeps' = IF st.next = "sleep" THEN Append(sleeps, st.delay) ELSE sleeps
        /\ fetchRet' = st.ret
    /\ UNCHANGED <<fetchFn, attempt>>
    /\ UNCHANGED <<cacheVars, prog, parseVars, opsVars, cmdVars>>

\* asyncio.sleep returns; `continue` or the end of the except block takes the
\* loop to its next value.
FetchWake ==
    /\ fetchPc = "sleep"
    /\ fetchPc' = "get"
    /\ attempt' = attempt + 1
    /\ UNCHANGED <<fetchFn, gets, sleeps, seen, fetchRet>>
    /\ UNCHANGED <<cacheVars, prog, parseVars, opsVars, cmdVars>>

\* The loop is over: the statement after it returns the placeholder.
FetchExhausted ==
    /\ fetchPc = "get"
    /\ ~LoopRuns(attempt)
    /\ fetchPc' = "done"
    /\ fetchRet' = ExhaustedPair(fetchFn)
    /\ UNCHANGED <<fetchFn, attempt, gets, sleeps, seen>>
    /\ UNCHANGED <<cacheVars, prog, parseVars, opsVars, cmdVars>>

(***************************************************************************)
(* TTL cache                                                               *)
(***************************************************************************)
\* CACHE_TTL = 300
CACHE_TTL == 300

\* Number of clock advances in a run.
MaxTicks == 3

\* Amounts the clock advances by between two calls.
TickSteps == {1, CACHE_TTL - 1, CACHE_TTL}

\* Keys and values passed to the bare cache functions.
CacheKeys == {"k1", "k2"}
CacheValues == {Str(<<<<>>>>), Str(<<<<"T", "a", "k">>>>)}

\* The empty dict.
EmptyCache == [k \in {} |-> [t |-> 0, d |-> None]]

\* Variant: an entry exactly CACHE_TTL old counts as expired.
Expired_AtTtl(entry, t) == t - entry.t >= CACHE_TTL

\* time.time() - v["t"] > CACHE_TTL
Expired(entry, t) == t - entry.t > CACHE_TTL

\* Variant: a read past expiry sweeps every expired entry.
cache_get_Sweep(c, k, t) ==
    IF k \notin DOMAIN c THEN [ret |-> None, cache |-> c]
    ELSE IF Expired(c[k], t)
        THEN [ret |-> None,
              cache |-> [j \in {i \in DOMAIN c : ~Expired(c[i], t)} |-> c[j]]]
    ELSE [ret |-> c[k].d, cache |-> c]

\* cache_get(k): the value returned and the dict it leaves, at time t.
\* `if not v` tests the entry dict {"t", "d"}, which is falsy only when the
\* key is absent.
cache_get(c, k, t) ==
    IF k \notin DOMAIN c THEN [ret |-> None, cache |-> c]
    ELSE IF Expired(c[k], t)
        THEN [ret |-> None, cache |-> [j \in DOMAIN c \ {k} |-> c[j]]]
    ELSE [ret |-> c[k].d, cache |-> c]

\* Variant: an entry that is there is kept (setdefault).
cache_set_KeepFirst(c, k, d, t) ==
    IF k \in DOMAIN c THEN c
    ELSE [x \in DOMAIN c \cup {k} |-> IF x = k THEN [t |-> t, d |-> d] ELSE c[x]]

\* cache_set(k, d): the dict after _cache[k] = {"t": time.time(), "d": d}.
cache_set(c, k, d, t) ==
    [j \in DOMAIN c \cup {k} |-> IF j = k THEN [t |-> t, d |-> d] ELSE c[j]]

NoCall == [fn |-> "none", k |-> "", at |-> 0, ret |-> None]

\* A caller runs cache_get(k).
CacheGet(k) ==
    /\ LET r == cache_get(cache, k, now) IN
        /\ cache' = r.cache
        /\ lastCall' = [fn |-> "cache_get", k |-> k, at |-> now, ret |-> r.ret]
    /\ UNCHANGED <<now, ticks, written>>
    /\ UNCHANGED <<fetchVars, prog, parseVars, opsVars, cmdVars>>

\* A caller runs cache_set(k, d).
CacheSet(k, d) ==
    /\ cache' = cache_set(cache, k, d, now)
    /\ written' = cache_set(written, k, d, now)
    /\ lastCall' = [fn |-> "cache_set", k |-> k, at |-> now, ret |-> None]
    /\ UNCHANGED <<now, ticks>>
    /\ UNCHANGED <<fetchVars, prog, parseVars, opsVars, cmdVars>>

\* Time passes between two calls; nothing runs.
Tick(d) ==
    /\ ticks < MaxTicks
    /\ now' = now + d
    /\ ticks' = ticks + 1
    /\ UNCHANGED <<cache, written, lastCall>>
    /\ UNCHANGED <<fetchVars, prog, parseVars, opsVars, cmdVars>>

(***************************************************************************)
(* Citation parser                                                         *)
(***************************************************************************)
\* Characters.  The Polish letters are written "a,", "c'", "e,", "l/", "n'",
\* "o'", "s'", "z'" (acute) and "z." (dot); "(c)" is the copyright sign,
\* "mid" the middle dot, "--" the en dash and "nbsp" the no-break space.
LOWER == <<"a", "b", "c", "d", "e", "f", "g", "h", "i", "j", "k", "l", "m",
           "n", "o", "p", "q", "r", "s", "t", "u", "v", "w", "x", "y", "z",
           "a,", "c'", "e,", "l/", "n'", "o'", "s'", "z'", "z.">>
UPPER == <<"A", "B", "C", "D", "E", "F", "G", "H", "I", "J", "K", "L", "M",
           "N", "O", "P", "Q", "R", "S", "T", "U", "V", "W", "X", "Y", "Z",
           "A,", "C'", "E,", "L/", "N'", "O'", "S'", "Z'", "Z.">>
Digits == {"0", "1", "2", "3", "4", "5", "6", "7", "8", "9"}
Spaces == {" ", "\t", "\n"}

\* \d and \s of the re module.
IsDigit(c) == c \in Digits
IsSpace(c) == c \in Spaces

\* str.lower() and str.upper() on one character.
LowerChar(c) ==
    IF \E i \in 1..Len(UPPER) : UPPER[i] = c
    THEN LOWER[CHOOSE i \in 1..Len(UPPER) : UPPER[i] = c] ELSE c
UpperChar(c) ==
    IF \E i \in 1..Len(LOWER) : LOWER[i] = c
    THEN UPPER[CHOOSE i \in 1..Len(LOWER) : LOWER[i] = c] ELSE c

\* s.lower()
StrLower(s) == [i \in 1..Len(s) |-> LowerChar(s[i])]

\* s[a:b] with 1-based inclusive bounds; empty when b < a.
Slice(s, a, b) == [i \in 1..(b - a + 1) |-> s[a + i - 1]]

\* s.strip()
Strip(s) ==
    LET idx == {i \in 1..Len(s) : ~IsSpace(s[i])} IN
    IF idx = {} THEN <<>>
    ELSE LET a == CHOOSE i \in idx : \A j \in idx : i <= j
             b == CHOOSE i \in idx : \A j \in idx : i >= j
         IN Slice(s, a, b)

\* Length of the longest run of characters satisfying the class that starts
\* at position from (0 when s[from] is outside the class or past the end).
DigitRun(s, from) ==
    LET ends == {e \in (from - 1)..Len(s) : \A i \in from..e : IsDigit(s[i])}
    IN (CHOOSE e \in ends : \A f \in ends : e >= f) - (from - 1)
NonDigitRun(s, from) ==
    LET ends == {e \in (from - 1)..Len(s) : \A i \in from..e : ~IsDigit(s[i])}
    IN (CHOOSE e \in ends : \A f \in ends : e >= f) - (from - 1)

NoMatch == [ok |-> FALSE, book |-> <<>>, ch |-> <<>>, vs |-> <<>>]

\* REF_RE.match(ref) with
\* REF_RE = ^\s*([^\d]+)\s+(\d+):(\d+(?:-\d+)?)\s*$
\* The groups as the backtracking matcher delivers them: everything before
\* the first digit is shared by \s*, ([^\d]+) and \s+, so it must hold at
\* least two characters and end in white space; group 1 stripped is that
\* prefix stripped.
REF_RE(ref) ==
    LET p   == NonDigitRun(ref, 1)
        c   == DigitRun(ref, p + 1)
        col == p + c + 1
        v   == DigitRun(ref, col + 1)
        dsh == col + v + 1
        w   == IF dsh <= Len(ref) /\ ref[dsh] = "-" THEN DigitRun(ref, dsh + 1) ELSE 0
        end == IF w > 0 THEN dsh + w ELSE col + v
    IN  IF /\ p >= 2
           /\ IsSpace(ref[p])
           /\ c >= 1
           /\ col <= Len(ref)
           /\ ref[col] = ":"
           /\ v >= 1
           /\ \A i \in (end + 1)..Len(ref) : IsSpace(ref[i])
        THEN [ok |-> TRUE,
              book |-> Slice(ref, 1, p),
              ch |-> Slice(ref, p + 1, p + c),
              vs |-> Slice(ref, col + 1, end)]
        ELSE NoMatch

(***************************************************************************)
(* Text utilities                                                          *)
(*                                                                         *)
(* A Python str that holds text is the sequence of its lines (the pieces   *)
(* between "\n"), each line a sequence of characters; "" is <<<<>>>>.      *)
(***************************************************************************)
EmptyStr == <<<<>>>>

\* Truth value of a Python value: None and "" are falsy.
Truthy(v) == v.kind # "None" /\ (v.kind = "str" => v.val # EmptyStr)

\* [ \t] of the re module.
IsSpTab(c) == c \in {" ", "\t"}

\* Length of the run of white space that starts at position from.
SpaceRun(s, from) ==
    LET ends == {e \in (from - 1)..Len(s) : \A i \in from..e : IsSpace(s[i])}
    IN (CHOOSE e \in ends : \A f \in ends : e >= f) - (from - 1)

\* \w of the re module.
IsWordChar(c) ==
    \/ IsDigit(c)
    \/ c = "_"
    \/ \E i \in 1..Len(LOWER) : c = LOWER[i] \/ c = UPPER[i]

\* The literal lit stands at position pos of line, letter case ignored.
HasPrefixCI(line, pos, lit) ==
    /\ pos + Len(lit) - 1 <= Len(line)
    /\ \A i \in 1..Len(lit) : LowerChar(line[pos + i - 1]) = LowerChar(lit[i])

\* line.lstrip() and line.rstrip().
LStrip(line) ==
    LET idx == {i \in 1..Len(line) : ~IsSpace(line[i])} IN
    IF idx = {} THEN <<>>
    ELSE Slice(line, CHOOSE i \in idx : \A j \in idx : i <= j, Len(line))
RStrip(line) ==
    LET idx == {i \in 1..Len(line) : ~IsSpace(line[i])} IN
    IF idx = {} THEN <<>>
    ELSE Slice(line, 1, CHOOSE i \in idx : \A j \in idx : i >= j)

IsBlankLine(line) == \A i \in 1..Len(line) : IsSpace(line[i])

\* s.strip() of a text.
StrStrip(t) ==
    LET idx == {i \in 1..Len(t) : ~IsBlankLine(t[i])} IN
    IF idx = {} THEN EmptyStr
    ELSE LET a == CHOOSE i \in idx : \A j \in idx : i <= j
             b == CHOOSE i \in idx : \A j \in idx : i >= j
         IN IF a = b THEN <<Strip(t[a])>>
            ELSE <<LStrip(t[a])>> \o SubSeq(t, a + 1, b - 1) \o <<RStrip(t[b])>>

\* a + b of two texts: the last line of a runs on into the first line of b.
StrConcat(a, b) ==
    SubSeq(a, 1, Len(a) - 1) \o <<a[Len(a)] \o b[1]>> \o SubSeq(b, 2, Len(b))

\* "\n".join(parts), parts a list of texts.
RECURSIVE JoinLines(_)
JoinLines(parts) ==
    IF parts = <<>> THEN EmptyStr
    ELSE IF Len(parts) = 1 THEN parts[1]
    ELSE parts[1] \o JoinLines(Tail(parts))

\* t.splitlines(): no trailing empty piece.
SplitLines(t) == IF t[Len(t)] = <<>> THEN SubSeq(t, 1, Len(t) - 1) ELSE t

\* re.sub(r"\r?\n[ \t]*\r?\n+", "\n", s), from kept line i on: a line of
\* only spaces and tabs that follows a newline is removed together with the
\* empty lines right after it, as long as a newline follows them.
RECURSIVE CollapseFrom(_, _)
CollapseFrom(t, i) ==
    IF i >= Len(t) THEN <<t[i]>>
    ELSE IF (\A k \in 1..Len(t[i + 1]) : IsSpTab(t[i + 1][k])) /\ i + 1 < Len(t)
        THEN LET stops == {j \in (i + 2)..Len(t) : ~(t[j] = <<>> /\ j < Len(t))}
                 j == CHOOSE x \in stops : \A y \in stops : x <= y
             IN <<t[i]>> \o CollapseFrom(t, j)
    ELSE <<t[i]>> \o CollapseFrom(t, i + 1)

\* re.sub(r"[ \t]+", " ", s) on one line.
CollapseSpaces(line) ==
    LET keep == {i \in 1..Len(line) : ~(IsSpTab(line[i]) /\ i > 1 /\ IsSpTab(line[i - 1]))}
        nth(n) == CHOOSE i \in keep : Cardinality({j \in keep : j <= i}) = n
    IN [n \in 1..Cardinality(keep) |->
            IF IsSpTab(line[nth(n)]) THEN " " ELSE line[nth(n)]]

\* html.unescape on one character reference.
UnescapeChar(c) ==
    IF c = "&amp;" THEN "&" ELSE IF c = "&nbsp;" THEN "nbsp" ELSE c

UnescapeLine(line) == [i \in 1..Len(line) |-> UnescapeChar(line[i])]

\* The text of one markup node once tags are gone: <style> and <script>
\* lose their content, <br> is a line break, a verse-text block holds its
\* verse-number span followed by its text.
NodeText(n) ==
    IF n.tag \in {"style", "script"} THEN EmptyStr
    ELSE IF n.tag = "br" THEN <<<<>>, <<>>>>
    ELSE IF n.tag = "verse" THEN StrConcat(<<n.num>>, n.inner)
    ELSE n.inner

RECURSIVE NodesText(_)
NodesText(nodes) ==
    IF nodes = <<>> THEN EmptyStr
    ELSE StrConcat(NodeText(Head(nodes)), NodesText(Tail(nodes)))

\* _strip_tags(html), html given as its nodes.
strip_tags(nodes) ==
    LET s == CollapseFrom(NodesText(nodes), 1) IN
    StrStrip([i \in 1..Len(s) |-> UnescapeLine(CollapseSpaces(s[i]))])

\* html.strip() is truthy: the markup holds something besides white space.
HtmlNonBlank(nodes) ==
    \E i \in 1..Len(nodes) :
        nodes[i].tag # "text" \/ \E k \in 1..Len(nodes[i].inner) : ~IsBlankLine(nodes[i].inner[k])

\* txt.startswith(prefix) for a one-line prefix.
StartsWith(t, prefix) ==
    /\ Len(prefix) <= Len(t[1])
    /\ SubSeq(t[1], 1, Len(prefix)) = prefix

\* The line biblia_html_to_text appends for one verse-text block, <<>> when
\* the block holds no text.
BlockLines(b) ==
    LET prefix == IF b.num # <<>> THEN b.num \o <<".", " ">> ELSE <<>>
        txt == StrStrip(strip_tags(<<b>>))
    IN  IF txt = EmptyStr THEN <<>>
        ELSE IF prefix # <<>> /\ ~StartsWith(txt, prefix)
            THEN <<StrConcat(<<prefix>>, txt)>>
        ELSE <<txt>>

RECURSIVE AllBlockLines(_)
AllBlockLines(blocks) ==
    IF blocks = <<>> THEN <<>>
    ELSE BlockLines(Head(blocks)) \o AllBlockLines(Tail(blocks))

\* biblia_html_to_text(full_html)
biblia_html_to_text(nodes) ==
    LET blocks == SelectSeq(nodes, LAMBDA n : n.tag = "verse") IN
    IF blocks # <<>> THEN StrStrip(JoinLines(AllBlockLines(blocks)))
    ELSE strip_tags(nodes)

\* DROP_PATTERNS of clean_pl_verse_text, each matched at the start of a
\* stripped line with re.IGNORECASE.
TRANSLATION_BANNERS == {<<"T", "y", "s", "i", "a,", "c", "l", "e", "c", "i", "a">>, <<"W", "a", "r", "s", "z", "a", "w", "s", "k", "a">>, <<"G", "d", "a", "n'", "s", "k", "a">>, <<"P", "o", "z", "n", "a", "n'", "s", "k", "a">>, <<"Z", "a", "r", "e", "m", "b", "y">>, <<"P", "a", "u", "l", "i", "s", "t", "o'", "w">>, <<"E", "I", "B">>, <<"S", "N", "P">>}
TRANSLATION_CODES == {<<"B", "T">>, <<"B", "W">>, <<"B", "G">>, <<"U", "B", "G">>, <<"B", "P">>, <<"B", "Z">>, <<"N", "P">>, <<"P", "D">>, <<"N", "P", "W">>, <<"E", "I", "B">>, <<"S", "N", "P">>, <<"T", "O", "R">>, <<"W", "B">>}

\* ^Księga\s+\w+.*$
DropKsiega(l) ==
    /\ HasPrefixCI(l, 1, <<"K", "s", "i", "e,", "g", "a">>)
    /\ SpaceRun(l, 7) >= 1
    /\ 7 + SpaceRun(l, 7) <= Len(l)
    /\ IsWordChar(l[7 + SpaceRun(l, 7)])

\* ^\(?\d+\)?[.,]?$
DropBareNumber(l) ==
    LET a == IF Len(l) >= 1 /\ l[1] = "(" THEN 1 ELSE 0
        d == DigitRun(l, a + 1)
        p == a + d + 1
        q == IF p <= Len(l) /\ l[p] = ")" THEN p + 1 ELSE p
        r == IF q <= Len(l) /\ l[q] \in {".", ","} THEN q + 1 ELSE q
    IN d >= 1 /\ r = Len(l) + 1

\* ^\d+\s*[:.,]\s*\d+\s*,?$
DropChapterVerse(l) ==
    LET d1 == DigitRun(l, 1)
        p  == d1 + SpaceRun(l, d1 + 1) + 1
        q  == p + 1 + SpaceRun(l, p + 1)
        d2 == DigitRun(l, q)
        r  == q + d2 + SpaceRun(l, q + d2)
        e  == IF r <= Len(l) /\ l[r] = "," THEN r + 1 ELSE r
    IN  /\ d1 >= 1
        /\ p <= Len(l)
        /\ l[p] \in {":", ".", ","}
        /\ d2 >= 1
        /\ e = Len(l) + 1

\* ^Biblia\s+(Tysiąclecia|Warszawska|...).*$
DropBanner(l) ==
    /\ HasPrefixCI(l, 1, <<"B", "i", "b", "l", "i", "a">>)
    /\ SpaceRun(l, 7) >= 1
    /\ \E nm \in TRANSLATION_BANNERS : HasPrefixCI(l, 7 + SpaceRun(l, 7), nm)

\* ^Internetowa\s+Biblia\s+2000.*$
DropIB2000(l) ==
    LET p == 12 + SpaceRun(l, 12)
        q == p + 6 + SpaceRun(l, p + 6)
    IN  /\ HasPrefixCI(l, 1, <<"I", "n", "t", "e", "r", "n", "e", "t", "o", "w", "a">>)
        /\ SpaceRun(l, 12) >= 1
        /\ HasPrefixCI(l, p, <<"B", "i", "b", "l", "i", "a">>)
        /\ SpaceRun(l, p + 6) >= 1
        /\ HasPrefixCI(l, q, <<"2", "0", "0", "0">>)

\* ^(BT|BW|BG|UBG|BP|BZ|NP|PD|NPW|EIB|SNP|TOR|WB)\s*:.*$
DropCodeColon(l) ==
    \E c \in TRANSLATION_CODES :
        LET p == Len(c) + 1 + SpaceRun(l, Len(c) + 1) IN
        /\ HasPrefixCI(l, 1, c)
        /\ p <= Len(l)
        /\ l[p] = ":"

\* ^by\s+Digital\s+Gospel.*$
DropDigitalGospel(l) ==
    LET p == 3 + SpaceRun(l, 3)
        q == p + 7 + SpaceRun(l, p + 7)
    IN  /\ HasPrefixCI(l, 1, <<"b", "y">>)
        /\ SpaceRun(l, 3) >= 1
        /\ HasPrefixCI(l, p, <<"D", "i", "g", "i", "t", "a", "l">>)
        /\ SpaceRun(l, p + 7) >= 1
        /\ HasPrefixCI(l, q, <<"G", "o", "s", "p", "e", "l">>)

\* ^©.*$
DropCopyright(l) == Len(l) >= 1 /\ l[1] = "(c)"

\* ^\d{4}(?:\s*[–\-]\s*\d{4})?$
DropYears(l) ==
    LET p == 5 + SpaceRun(l, 5)
        q == p + 1 + SpaceRun(l, p + 1)
    IN  /\ DigitRun(l, 1) = 4
        /\ \/ Len(l) = 4
           \/ /\ p <= Len(l)
              /\ l[p] \in {"-", "--"}
              /\ DigitRun(l, q) = 4
              /\ q + 3 = Len(l)

\* ^[,.;·]+$
DropPunctuation(l) ==
    Len(l) >= 1 /\ \A i \in 1..Len(l) : l[i] \in {",", ".", ";", "mid"}

\* any(p.match(ln) for p in drops)
DropLine(l) ==
    \/ DropKsiega(l)
    \/ DropBareNumber(l)
    \/ DropChapterVerse(l)
    \/ DropBanner(l)
    \/ DropIB2000(l)
    \/ DropCodeColon(l)
    \/ DropDigitalGospel(l)
    \/ DropCopyright(l)
    \/ DropYears(l)
    \/ DropPunctuation(l)

\* re.sub(r"(?m)^\s*\d+[.)]\s*", "", out) on one kept line.
StripLeadingNumber(l) ==
    LET d == DigitRun(l, 1) IN
    IF d >= 1 /\ d < Len(l) /\ l[d + 1] \in {".", ")"}
    THEN Slice(l, d + 2 + SpaceRun(l, d + 2), Len(l))
    ELSE l

\* t.replace("\xa0", " ") on one line.
ReplaceNbsp(l) == [i \in 1..Len(l) |-> IF l[i] = "nbsp" THEN " " ELSE l[i]]

\* clean_pl_verse_text(t)
clean_pl_verse_text(t) ==
    LET split == SplitLines(t)
        lines == [i \in 1..Len(split) |-> Strip(ReplaceNbsp(split[i]))]
        kept  == SelectSeq(lines, LAMBDA ln : ln # <<>> /\ ~DropLine(ln))
    IN  IF kept = <<>> THEN EmptyStr
        ELSE StrStrip([i \in 1..Len(kept) |-> StripLeadingNumber(kept[i])])

PRIMARY_BOOK_SLUG ==
    { <<<<"M", "t">>, <<"m", "a", "t">>>>,
      <<<<"M", "k">>, <<"m", "a", "r">>>>,
      <<<<"L/", "k">>, <<"l", "u", "k">>>>,
      <<<<"L", "k">>, <<"l", "u", "k">>>>,
      <<<<"L/", "u", "k">>, <<"l", "u", "k">>>>,
      <<<<"J">>, <<"j", "a", "n">>>>,
      <<<<"J", "a", "n">>, <<"j", "a", "n">>>>,
      <<<<"D", "z">>, <<"d", "z">>>>,
      <<<<"R", "z">>, <<"r", "z">>>>,
      <<<<"1", "K", "o", "r">>, <<"1", "k", "o", "r">>>>,
      <<<<"I", " ", "K", "o", "r">>, <<"1", "k", "o", "r">>>>,
      <<<<"1", " ", "K", "o", "r">>, <<"1", "k", "o", "r">>>>,
      <<<<"2", "K", "o", "r">>, <<"2", "k", "o", "r">>>>,
      <<<<"I", "I", " ", "K", "o", "r">>, <<"2", "k", "o", "r">>>>,
      <<<<"2", " ", "K", "o", "r">>, <<"2", "k", "o", "r">>>>,
      <<<<"G", "a", "l">>, <<"g", "a", "l">>>>,
      <<<<"E", "f">>, <<"e", "f">>>>,
      <<<<"F", "l", "p">>, <<"f", "l", "p">>>>,
      <<<<"K", "o", "l">>, <<"k", "o", "l">>>>,
      <<<<"1", "T", "e", "s">>, <<"1", "t", "e", "s">>>>,
      <<<<"2", "T", "e", "s">>, <<"2", "t", "e", "s">>>>,
      <<<<"1", "T", "m">>, <<"1", "t", "m">>>>,
      <<<<"2", "T", "m">>, <<"2", "t", "m">>>>,
      <<<<"T", "t">>, <<"t", "t">>>>,
      <<<<"F", "l", "m">>, <<"f", "l", "m">>>>,
      <<<<"H", "b", "r">>, <<"h", "b", "r">>>>,
      <<<<"J", "a", "k">>, <<"j", "a", "k">>>>,
      <<<<"1", "P">>, <<"1", "p">>>>,
      <<<<"2", "P">>, <<"2", "p">>>>,
      <<<<"1", "J">>, <<"1", "j">>>>,
      <<<<"2", "J">>, <<"2", "j">>>>,
      <<<<"3", "J">>, <<"3", "j">>>>,
      <<<<"J", "u", "d">>, <<"j", "u", "d">>>>,
      <<<<"O", "b", "j">>, <<"o", "b", "j">>>>,
      <<<<"A", "p">>, <<"o", "b", "j">>>>,
      <<<<"R", "d", "z">>, <<"r", "d", "z">>>>,
      <<<<"W", "j">>, <<"w", "j">>>>,
      <<<<"K", "p", "l/">>, <<"k", "p", "l">>>>,
      <<<<"K", "p", "l">>, <<"k", "p", "l">>>>,
      <<<<"L", "b">>, <<"l", "b">>>>,
      <<<<"P", "w", "t">>, <<"p", "w", "t">>>>,
      <<<<"J", "o", "z">>, <<"j", "o", "z">>>>,
      <<<<"S", "d", "z">>, <<"s", "d", "z">>>>,
      <<<<"R", "u", "t">>, <<"r", "u", "t">>>>,
      <<<<"1", "S", "m">>, <<"1", "s", "m">>>>,
      <<<<"2", "S", "m">>, <<"2", "s", "m">>>>,
      <<<<"1", "K", "r", "l">>, <<"1", "k", "r", "l">>>>,
      <<<<"2", "K", "r", "l">>, <<"2", "k", "r", "l">>>>,
      <<<<"1", "K", "r", "n">>, <<"1", "k", "r", "n">>>>,
      <<<<"2", "K", "r", "n">>, <<"2", "k", "r", "n">>>>,
      <<<<"E", "z", "d">>, <<"e", "z", "d">>>>,
      <<<<"N", "e", "h">>, <<"n", "e", "h">>>>,
      <<<<"E", "s", "t">>, <<"e", "s", "t">>>>,
      <<<<"H", "i">>, <<"h", "i">>>>,
      <<<<"J", "b">>, <<"h", "i">>>>,
      <<<<"P", "s">>, <<"p", "s">>>>,
      <<<<"P", "r", "z">>, <<"p", "r", "z">>>>,
      <<<<"K", "o", "h">>, <<"k", "o", "h">>>>,
      <<<<"P", "n", "p">>, <<"p", "n", "p">>>>,
      <<<<"I", "z">>, <<"i", "z">>>>,
      <<<<"J", "e", "r">>, <<"j", "e", "r">>>>,
      <<<<"L", "m">>, <<"l", "m">>>>,
      <<<<"E", "z">>, <<"e", "z">>>>,
      <<<<"D", "n">>, <<"d", "n">>>>,
      <<<<"O", "z">>, <<"o", "z">>>>,
      <<<<"J", "l">>, <<"j", "l">>>>,
      <<<<"A", "m">>, <<"a", "m">>>>,
      <<<<"A", "b">>, <<"a", "b">>>>,
      <<<<"J", "o", "n">>, <<"j", "o", "n">>>>,
      <<<<"M", "i">>, <<"m", "i">>>>,
      <<<<"N", "a">>, <<"n", "a">>>>,
      <<<<"H", "a">>, <<"h", "a">>>>,
      <<<<"S", "o">>, <<"s", "o">>>>,
      <<<<"A", "g">>, <<"a", "g">>>>,
      <<<<"Z", "a">>, <<"z", "a">>>>,
      <<<<"M", "l">>, <<"m", "l">>>> }

BOOK_ALIASES_UPDATE ==
    { <<<<"m", "t">>, <<"m", "a", "t">>>>,
      <<<<"m", "a", "t", "e", "u", "s", "z">>, <<"m", "a", "t">>>>,
      <<<<"m", "k">>, <<"m", "a", "r">>>>,
      <<<<"m", "a", "r", "k", "a">>, <<"m", "a", "r">>>>,
      <<<<"l", "k">>, <<"l", "u", "k">>>>,
      <<<<"l/", "k">>, <<"l", "u", "k">>>>,
      <<<<"l/", "u", "k">>, <<"l", "u", "k">>>>,
      <<<<"l", "u", "k">>, <<"l", "u", "k">>>>,
      <<<<"j">>, <<"j", "a", "n">>>>,
      <<<<"j", "a", "n">>, <<"j", "a", "n">>>>,
      <<<<"a", "p">>, <<"o", "b", "j">>>>,
      <<<<"a", "p", "o">>, <<"o", "b", "j">>>>,
      <<<<"a", "p", "o", "k", "a", "l", "i", "p", "s", "a">>, <<"o", "b", "j">>>> }

BOOK_SLUG_VARIANTS ==
    { <<<<"j", "a", "n">>, <<<<"j", "a", "n">>, <<"e", "w", "j", "a", "n">>, <<"j", "o", "a", "n">>>>>>,
      <<<<"m", "a", "t">>, <<<<"m", "a", "t">>, <<"e", "w", "m", "a", "t">>>>>>,
      <<<<"m", "a", "r">>, <<<<"m", "a", "r">>, <<"e", "w", "m", "a", "r">>>>>>,
      <<<<"l", "u", "k">>, <<<<"l", "u", "k">>, <<"e", "w", "l", "u", "k">>>>>>,
      <<<<"o", "b", "j">>, <<<<"o", "b", "j">>, <<"a", "p", "o", "k", "a", "l">>, <<"a", "p">>>>>> }


\* dict.get(key, default) on a dict given as its set of (key, value) pairs.
DictGet(d, key, default) ==
    IF \E kv \in d : kv[1] = key
    THEN (CHOOSE kv \in d : kv[1] = key)[2] ELSE default

DictKeys(d) == {kv[1] : kv \in d}

\* BOOK_ALIASES = {k.lower(): v for k, v in PRIMARY_BOOK_SLUG.items()}
\* BOOK_ALIASES.update({...})
BOOK_ALIASES ==
    {kv \in {<<StrLower(pv[1]), pv[2]>> : pv \in PRIMARY_BOOK_SLUG} :
        kv[1] \notin DictKeys(BOOK_ALIASES_UPDATE)}
    \cup BOOK_ALIASES_UPDATE

\* parse_ref(ref) of the running program: None (NoMatch) or the triple.
\* bot.py returns the stripped book token, bot2.py resolves it through
\* BOOK_ALIASES.
parse_ref(pr, ref) ==
    LET m == REF_RE(ref) IN
    IF ~m.ok THEN NoMatch
    ELSE IF pr = "bot.py" THEN [m EXCEPT !.book = Strip(m.book)]
    ELSE LET key == StrLower(Strip(m.book))
         IN [m EXCEPT !.book = StrLower(DictGet(BOOK_ALIASES, key, key))]

\* Two coroutines of the event loop, each making one call.
Procs == {1, 2}

NoPrior == [has |-> FALSE, at |-> 0, value |-> None]

IdleProc ==
    [pc |-> "idle", fn |-> "none", trans |-> "", ref |-> <<>>, vid |-> "", mesora |-> FALSE,
     key |-> <<>>, slugs |-> <<>>, i |-> 0, reqs |-> <<>>,
     ret |-> None, exc |-> "", start |-> 0, prior |-> NoPrior, cacheCalls |-> 0,
     status |-> 0, body |-> None, last_status |-> 0, parsed |-> NoMatch]

Progs == {"bot.py", "bot2.py"}

\* Keys of at most this length are tried in every letter-case variant.
MaxCaseLen == 3

\* The positions of an alias that a variant writes in upper case.
CaseMasks(a) ==
    IF Len(a) <= MaxCaseLen THEN SUBSET (1..Len(a))
    ELSE {{}, {1}, 1..Len(a)}

CaseVariant(a, mask) == [i \in 1..Len(a) |-> IF i \in mask THEN UpperChar(a[i]) ELSE a[i]]

NoInput == [kind |-> "none", alias |-> <<>>, ref |-> <<>>]

\* _split_for_embeds not called: no arguments, no result.
\* No search called yet, nothing returned yet.
NoSearchIn == [trans |-> "", phrase |-> <<>>, page |-> 0, limit |-> 0]
NoResult == None
IdleSearch ==
    [pc |-> "idle", calls |-> 0, page |-> 0, limit |-> 0, key |-> <<>>, i |-> 0,
     total_all |-> JNone, range_start |-> JNone, range_end |-> JNone, out |-> <<>>,
     last_status |-> 0, reqs |-> <<>>, cacheCalls |-> 0, ret |-> NoResult, exc |-> "",
     estimated |-> FALSE, records |-> <<>>, statuses |-> <<>>]
IdleHl == [fn |-> "none", hay |-> <<>>, needle |-> <<>>, done |-> FALSE, matches |-> <<>>, out |-> <<>>]
IdleFetchAll ==
    [cmd |-> "none", fetch_all |-> FALSE, pc |-> "idle", cur |-> 0, n |-> 0, pages |-> 0,
     end |-> 0, total |-> 0, hits |-> 0, blocks |-> 0, reply |-> "none"]
NoPress == [user |-> "none", btn |-> "none", ok |-> FALSE, at |-> 0, page |-> 0, stamps |-> <<>>]
NoView ==
    [blocks |-> 0, per_page |-> 1, page |-> 0, locked_to_author |-> FALSE,
     last_click_per_user |-> <<>>, time |-> 0, ticks |-> 0, press |-> NoPress]
NoSplitIn == [title |-> "", footer |-> "", lines |-> <<>>, limit |-> 0]
NotSplit == [done |-> FALSE, chunks |-> <<>>]
NotRun == [ok |-> FALSE, book |-> <<"?">>, ch |-> <<>>, vs |-> <<>>]

\* References handed to parse_ref: every alias, in its case variants,
\* followed by " 1:1".
AliasRefs ==
    UNION {{[kind |-> "alias", alias |-> a,
             ref |-> CaseVariant(a, m) \o <<" ", "1", ":", "1">>] : m \in CaseMasks(a)} :
           a \in DictKeys(BOOK_ALIASES)}

\* References with a verse range, the end above, at and below the start.
RangeRefs ==
    {[kind |-> "range", alias |-> <<>>, ref |-> <<"J", " ", "3", ":">> \o r] :
        r \in {<<"1", "6", "-", "1", "8">>, <<"1", "6", "-", "1", "6">>,
               <<"1", "6", "-", "5">>, <<"9", "-", "1", "0">>, <<"1", "0", "-", "9">>}}

ParseInputs == AliasRefs \cup RangeRefs

ParseInit ==
    /\ fetchFn = "none"
    /\ fetchPc = "idle"
    /\ attempt = 0
    /\ gets = 0
    /\ sleeps = <<>>
    /\ seen = <<>>
    /\ fetchRet = NoRet
    /\ cache = EmptyCache
    /\ now = 0
    /\ ticks = 0
    /\ written = EmptyCache
    /\ lastCall = NoCall
    /\ prog \in Progs
    /\ parseIn \in ParseInputs
    /\ parseOut = NotRun
    /\ procs = [p \in Procs |-> IdleProc]
    /\ served = EmptyCache
    /\ fhHits = 0
    /\ fhBad = {}
    /\ fhI = 0
    /\ fhSub = <<>>
    /\ fhPc = "idle"
    /\ fhBlocks = 0
    /\ splitIn = NoSplitIn
    /\ splitOut = NotSplit
    /\ srIn = NoSearchIn
    /\ sr = IdleSearch
    /\ hl = IdleHl
    /\ fa = IdleFetchAll
    /\ view = NoView

\* A caller runs parse_ref(ref).
ParseRef ==
    /\ parseOut = NotRun
    /\ procs = [p \in Procs |-> IdleProc]
    /\ served = EmptyCache
    /\ parseOut' = parse_ref(prog, parseIn.ref)
    /\ UNCHANGED <<fetchVars, cacheVars, prog, parseIn, opsVars, cmdVars>>

(***************************************************************************)
(* Cached operations                                                       *)
(***************************************************************************)
\* BIBLIA_INFO_CODES
BIBLIA_INFO_CODES ==
    [bw |-> "bw", bg |-> "bg", ubg |-> "ubg", bt |-> "bt", bp |-> "bp", bz |-> "bz", np |-> "np", pd |-> "pd", npw |-> "npw", eib |-> "eib", snp |-> "snp", tor |-> "tor", wb |-> "wb", nb |-> "ubg"]

\* Wire bodies.  Pages of biblia.info.pl:
H_EMPTY == [kind |-> "html", val |-> <<>>]
H_BLANK == [kind |-> "html", val |-> <<[tag |-> "text", num |-> <<>>, inner |-> <<<<" ">>>>]>>]
H_VERSE == [kind |-> "html", val |-> <<[tag |-> "verse", num |-> <<"1", "6">>, inner |-> <<<<" ", "T", "a", "k">>>>]>>]
H_PLAIN == [kind |-> "html", val |-> <<[tag |-> "text", num |-> <<>>, inner |-> <<<<"B", "i", "b", "l", "i", "a", " ", "W", "a", "r", "s", "z", "a", "w", "s", "k", "a">>, <<"T", "a", "k">>>>]>>]
H_BARE  == [kind |-> "html", val |-> <<[tag |-> "text", num |-> <<>>, inner |-> <<<<"(", "1", "6", ")">>>>]>>]
H_STYLE == [kind |-> "html", val |-> <<[tag |-> "style", num |-> <<>>, inner |-> <<<<"x">>>>]>>]

\* JSON texts of api.bible: {"data": {"content": " Tak "}}, {"data":
\* {"content": ""}}, {}, {"data": [1]} and [].
JsonDoc(jt, dt, content) == [jt |-> jt, data |-> [jt |-> dt, content |-> content]]
J_TEXT     == [kind |-> "json", val |-> JsonDoc("dict", "dict", <<<<" ", "T", "a", "k", " ">>>>)]
J_EMPTY    == [kind |-> "json", val |-> JsonDoc("dict", "dict", EmptyStr)]
J_NODATA   == [kind |-> "json", val |-> JsonDoc("dict", "absent", EmptyStr)]
J_DATALIST == [kind |-> "json", val |-> JsonDoc("dict", "list", EmptyStr)]
J_LIST     == [kind |-> "json", val |-> JsonDoc("list", "absent", EmptyStr)]

Response(status, body) == [exc |-> FALSE, status |-> status, body |-> body]
NetworkError == [exc |-> TRUE, status |-> 0, body |-> None]

\* What the provider of passages and the api.bible endpoint answer with.
PassageOutcomes ==
    {Response(200, b) : b \in {H_BLANK, H_PLAIN, H_BARE, H_STYLE}}
    \cup {Response(404, H_VERSE), Response(503, H_EMPTY), NetworkError}
VerseOutcomes ==
    {Response(200, b) : b \in {J_TEXT, J_EMPTY, J_NODATA, J_DATALIST, J_LIST}}
    \cup {Response(404, J_NODATA), Response(503, H_EMPTY), NetworkError}

\* The pairs a call of the fetch client can hand back when the upstream
\* behaves as in outs: the pair of an attempt that ends the loop, or the
\* placeholder once the loop is over.
HttpReturns(fn, outs) ==
    {AttemptStep(fn, a, o).ret :
        a \in 0..(MAX_ATTEMPTS - 1), o \in {x \in outs : AttemptStep(fn, 0, x).next = "done"}}
    \cup {ExhaustedPair(fn)}

\* What http_get_text hands back to a passage lookup, http_get_json to a
\* verse lookup.
PassageReturns == HttpReturns("http_get_text", PassageOutcomes)
VerseReturns == HttpReturns("http_get_json", VerseOutcomes)

\* Arguments the callers pass.
OpsTrans == {"bw", "xx"}
\* References that do not match the citation grammar: no colon, a verse
\* that is no number, no book token.
MalformedRefs == {<<"J", " ", "3">>, <<"J", " ", "3", ":", "x">>, <<" ", " ", "3", ":", "1", "6">>}
OpsRefs == {<<"J", " ", "3", ":", "1", "6">>, <<"j", " ", "3", ":", "1", "6">>} \cup MalformedRefs
\* The passage calls made: every reference with a known translation, one
\* reference with an unknown one (the translation is tested first).
OpsCalls ==
    {<<"bw", ref>> : ref \in OpsRefs} \cup {<<trans, <<"J", " ", "3", ":", "1", "6">>>> : trans \in OpsTrans}
OpsVerseIds == {"GEN.1.1"}

\* Steps of the clock between the calls, and how many of them.
OpsTickSteps == {CACHE_TTL}
MaxOpsTicks == 1

\* The identity of a request: the function and its arguments.
Request(pr) == <<pr.fn, pr.trans, pr.ref, pr.vid, pr.mesora>>

\* The latest fetched result of the request, as the history knows it.
PriorOf(srv, rq) ==
    IF rq \in DOMAIN srv THEN [has |-> TRUE, at |-> srv[rq].t, value |-> srv[rq].d]
    ELSE NoPrior

\* book_pl.lower().replace("ł","l").replace("ś","s").replace("ż","z").replace("ź","z")
FoldChar(c) ==
    IF c = "l/" THEN "l" ELSE IF c = "s'" THEN "s" ELSE IF c \in {"z.", "z'"} THEN "z" ELSE c
FoldSlug(book) == [i \in 1..Len(book) |-> FoldChar(LowerChar(book[i]))]

\* The slugs a passage lookup tries, in order: slug_try of bot.py,
\* candidates of bot2.py.
SlugCandidates(pr, book) ==
    IF pr = "bot.py" THEN <<FoldSlug(book), StrLower(book)>>
    ELSE DictGet(BOOK_SLUG_VARIANTS, book, <<book>>)

\* f"biblia_info|{trans}|{book}|{ch}|{vs}": the fields are kept apart, which
\* the "|" of the format string does as long as only the book can hold one.
PassageKey(trans, parsed) == <<"biblia_info", trans, parsed.book, parsed.ch, parsed.vs>>

\* f"{BIBLIA_INFO_BASE}/werset/{BIBLIA_INFO_CODES[trans]}/{slug}/{ch}/{vs}"
PassageUrl(trans, slug, parsed) == <<BIBLIA_INFO_CODES[trans], slug, parsed.ch, parsed.vs>>

\* f"api_bible_verse|{verse_id}|{'mes' if mesora else 'txt'}"
VerseKey(vid, mesora) == <<"api_bible_verse", vid, IF mesora THEN "mes" ELSE "txt">>

\* .../verses/{verse_id}?content-type=html|text&...
VerseUrl(vid, mesora) == <<vid, IF mesora THEN "html" ELSE "text">>

\* if cached: return cached
CacheHit(cached) == Truthy(cached)

\* Variant: the status of the answer is not looked at.
PassageText_AnyStatus(pr, r) ==
    IF ~(r.body.kind = "html" /\ HtmlNonBlank(r.body.val))
    THEN [ok |-> FALSE, text |-> EmptyStr]
    ELSE LET text == biblia_html_to_text(r.body.val) IN
         IF text = EmptyStr THEN [ok |-> FALSE, text |-> EmptyStr]
         ELSE [ok |-> TRUE,
               text |-> IF pr = "bot.py" THEN clean_pl_verse_text(text) ELSE text]

\* The text a passage lookup makes of a 200 answer; EmptyStr with ok FALSE
\* when the candidate yields nothing (`status == 200 and html.strip()`, then
\* `if text:`).  bot.py cleans the text before it caches and returns it.
PassageText(pr, r) ==
    IF ~(r.status = 200 /\ r.body.kind = "html" /\ HtmlNonBlank(r.body.val))
    THEN [ok |-> FALSE, text |-> EmptyStr]
    ELSE LET text == biblia_html_to_text(r.body.val) IN
         IF text = EmptyStr THEN [ok |-> FALSE, text |-> EmptyStr]
         ELSE [ok |-> TRUE,
               text |-> IF pr = "bot.py" THEN clean_pl_verse_text(text) ELSE text]

\* biblia_info_get_passage(trans, ref) up to its first await: validation,
\* cache lookup, first request.
PassageStart(p, trans, ref) ==
    /\ procs[p].pc = "idle"
    /\ LET parsed == parse_ref(prog, ref)
           key    == PassageKey(trans, parsed)
           g      == cache_get(cache, key, now)
           slugs  == SlugCandidates(prog, parsed.book)
           call   == [IdleProc EXCEPT !.fn = "biblia_info_get_passage",
                                      !.trans = trans, !.ref = ref, !.start = now]
           me     == [call EXCEPT !.prior = PriorOf(served, Request(call))]
       IN  IF trans \notin DOMAIN BIBLIA_INFO_CODES \/ ~parsed.ok
           THEN /\ procs' = [procs EXCEPT ![p] = [me EXCEPT !.pc = "raised", !.exc = "ValueError"]]
                /\ cache' = cache
           ELSE IF CacheHit(g.ret)
           THEN /\ procs' = [procs EXCEPT ![p] =
                        [me EXCEPT !.pc = "returned", !.parsed = parsed, !.key = key,
                                   !.ret = g.ret, !.cacheCalls = 1]]
                /\ cache' = g.cache
           ELSE /\ procs' = [procs EXCEPT ![p] =
                        [me EXCEPT !.pc = "http", !.parsed = parsed, !.key = key,
                                   !.slugs = slugs, !.i = 1, !.cacheCalls = 1,
                                   !.reqs = <<PassageUrl(trans, slugs[1], parsed)>>]]
                /\ cache' = g.cache
    /\ UNCHANGED <<served, now, ticks, written, lastCall, fetchVars, prog, parseVars, cmdVars>>

\* Variant: the lookup caches an empty text before it raises.
PassageResume_CachesFailure(p, r) ==
    /\ procs[p].pc = "http"
    /\ procs[p].fn = "biblia_info_get_passage"
    /\ LET me     == [procs[p] EXCEPT !.status = r.status, !.body = r.body,
                                       !.last_status = r.status]
           parsed == me.parsed
           t      == PassageText(prog, r)
       IN  IF t.ok
           THEN /\ procs' = [procs EXCEPT ![p] =
                        [me EXCEPT !.pc = "returned", !.ret = Str(t.text),
                                   !.cacheCalls = me.cacheCalls + 1]]
                /\ cache' = cache_set(cache, me.key, Str(t.text), now)
                /\ served' = cache_set(served, Request(me), Str(t.text), now)
           ELSE IF me.i < Len(me.slugs)
           THEN /\ procs' = [procs EXCEPT ![p] =
                        [me EXCEPT !.i = me.i + 1,
                                   !.reqs = Append(me.reqs, PassageUrl(me.trans, me.slugs[me.i + 1], parsed))]]
                /\ UNCHANGED <<cache, served>>
           ELSE /\ procs' = [procs EXCEPT ![p] = [me EXCEPT !.pc = "raised", !.exc = "RuntimeError",
                                                             !.cacheCalls = me.cacheCalls + 1]]
                /\ cache' = cache_set(cache, me.key, Str(EmptyStr), now)
                /\ UNCHANGED served
    /\ UNCHANGED <<now, ticks, written, lastCall, fetchVars, prog, parseVars, cmdVars>>

\* http_get_text hands its pair back to biblia_info_get_passage: the rest
\* of the loop body, then the next candidate or the RuntimeError.
PassageResume(p, r) ==
    /\ procs[p].pc = "http"
    /\ procs[p].fn = "biblia_info_get_passage"
    /\ LET me     == [procs[p] EXCEPT !.status = r.status, !.body = r.body,
                                       !.last_status = r.status]
           parsed == me.parsed
           t      == PassageText(prog, r)
       IN  IF t.ok
           THEN /\ procs' = [procs EXCEPT ![p] =
                        [me EXCEPT !.pc = "returned", !.ret = Str(t.text),
                                   !.cacheCalls = me.cacheCalls + 1]]
                /\ cache' = cache_set(cache, me.key, Str(t.text), now)
                /\ served' = cache_set(served, Request(me), Str(t.text), now)
           ELSE IF me.i < Len(me.slugs)
           THEN /\ procs' = [procs EXCEPT ![p] =
                        [me EXCEPT !.i = me.i + 1,
                                   !.reqs = Append(me.reqs, PassageUrl(me.trans, me.slugs[me.i + 1], parsed))]]
                /\ UNCHANGED <<cache, served>>
           ELSE /\ procs' = [procs EXCEPT ![p] = [me EXCEPT !.pc = "raised", !.exc = "RuntimeError"]]
                /\ UNCHANGED <<cache, served>>
    /\ UNCHANGED <<now, ticks, written, lastCall, fetchVars, prog, parseVars, cmdVars>>

\* api_bible_get_he_text(verse_id, mesora) up to its await.
VerseStart(p, vid, mesora) ==
    /\ prog = "bot.py"
    /\ procs[p].pc = "idle"
    /\ LET key  == VerseKey(vid, mesora)
           g    == cache_get(cache, key, now)
           call == [IdleProc EXCEPT !.fn = "api_bible_get_he_text",
                                    !.vid = vid, !.mesora = mesora, !.start = now]
           me   == [call EXCEPT !.prior = PriorOf(served, Request(call)), !.key = key,
                                !.cacheCalls = 1]
       IN  /\ cache' = g.cache
           /\ procs' = [procs EXCEPT ![p] =
                IF CacheHit(g.ret) THEN [me EXCEPT !.pc = "returned", !.ret = g.ret]
                ELSE [me EXCEPT !.pc = "http", !.reqs = <<VerseUrl(vid, mesora)>>]]
    /\ UNCHANGED <<served, now, ticks, written, lastCall, fetchVars, prog, parseVars, cmdVars>>

\* (data.get("data") or {}).get("content") or "", then .strip(); a "data"
\* that is a non-empty list has no .get.
VerseContent(doc) ==
    IF doc.data.jt = "list" THEN [exc |-> "AttributeError", out |-> EmptyStr]
    ELSE IF doc.data.jt = "absent" THEN [exc |-> "", out |-> EmptyStr]
    ELSE [exc |-> "", out |-> StrStrip(doc.data.content)]

\* http_get_json hands its pair back to api_bible_get_he_text.
VerseResume(p, r) ==
    /\ procs[p].pc = "http"
    /\ procs[p].fn = "api_bible_get_he_text"
    /\ LET me == [procs[p] EXCEPT !.status = r.status, !.body = r.body]
           isDict == r.body.kind = "parsed" /\ r.body.val.jt = "dict"
       IN  IF r.status # 200 \/ ~isDict
           THEN /\ procs' = [procs EXCEPT ![p] = [me EXCEPT !.pc = "raised", !.exc = "RuntimeError"]]
                /\ UNCHANGED <<cache, served>>
           ELSE LET c == VerseContent(r.body.val) IN
                IF c.exc # ""
                THEN /\ procs' = [procs EXCEPT ![p] = [me EXCEPT !.pc = "raised", !.exc = c.exc]]
                     /\ UNCHANGED <<cache, served>>
                ELSE /\ procs' = [procs EXCEPT ![p] =
                            [me EXCEPT !.pc = "returned", !.ret = Str(c.out),
                                       !.cacheCalls = me.cacheCalls + 1]]
                     /\ cache' = cache_set(cache, me.key, Str(c.out), now)
                     /\ served' = cache_set(served, Request(me), Str(c.out), now)
    /\ UNCHANGED <<now, ticks, written, lastCall, fetchVars, prog, parseVars, cmdVars>>

(***************************************************************************)
(* Specifications                                                          *)
(***************************************************************************)
\* No fetch call entered, the module-level _cache = {} just created.
Init ==
    /\ fetchFn = "none"
    /\ fetchPc = "idle"
    /\ attempt = 0
    /\ gets = 0
    /\ sleeps = <<>>
    /\ seen = <<>>
    /\ fetchRet = NoRet
    /\ cache = EmptyCache
    /\ now = 0
    /\ ticks = 0
    /\ written = EmptyCache
    /\ lastCall = NoCall
    /\ prog = "bot.py"
    /\ parseIn = NoInput
    /\ parseOut = NotRun
    /\ procs = [p \in Procs |-> IdleProc]
    /\ served = EmptyCache
    /\ fhHits = 0
    /\ fhBad = {}
    /\ fhI = 0
    /\ fhSub = <<>>
    /\ fhPc = "idle"
    /\ fhBlocks = 0
    /\ splitIn = NoSplitIn
    /\ splitOut = NotSplit
    /\ srIn = NoSearchIn
    /\ sr = IdleSearch
    /\ hl = IdleHl
    /\ fa = IdleFetchAll
    /\ view = NoView

FetchNext ==
    \/ \E fn \in {"http_get_text", "http_get_json"} : FetchCall(fn)
    \/ \E o \in Outcomes : FetchAttempt(o)
    \/ FetchWake
    \/ FetchExhausted

SpecFetch == Init /\ [][FetchNext]_vars

CacheNext ==
    \/ \E k \in CacheKeys : CacheGet(k)
    \/ \E k \in CacheKeys, d \in CacheValues : CacheSet(k, d)
    \/ \E d \in TickSteps : Tick(d)

SpecCache == Init /\ [][CacheNext]_vars

ParseNext == ParseRef

\* The clock moves on between two steps of the coroutines.
OpsTick(d) ==
    /\ ticks < MaxOpsTicks
    /\ Tick(d)

OpsInit ==
    /\ fetchFn = "none"
    /\ fetchPc = "idle"
    /\ attempt = 0
    /\ gets = 0
    /\ sleeps = <<>>
    /\ seen = <<>>
    /\ fetchRet = NoRet
    /\ cache = EmptyCache
    /\ now = 0
    /\ ticks = 0
    /\ written = EmptyCache
    /\ lastCall = NoCall
    /\ prog \in Progs
    /\ parseIn = NoInput
    /\ parseOut = NotRun
    /\ procs = [p \in Procs |-> IdleProc]
    /\ served = EmptyCache
    /\ fhHits = 0
    /\ fhBad = {}
    /\ fhI = 0
    /\ fhSub = <<>>
    /\ fhPc = "idle"
    /\ fhBlocks = 0
    /\ splitIn = NoSplitIn
    /\ splitOut = NotSplit
    /\ srIn = NoSearchIn
    /\ sr = IdleSearch
    /\ hl = IdleHl
    /\ fa = IdleFetchAll
    /\ view = NoView

OpsNext ==
    \/ \E p \in Procs, c \in OpsCalls : PassageStart(p, c[1], c[2])
    \/ \E p \in Procs, r \in PassageReturns : PassageResume(p, r)
    \/ \E p \in Procs, vid \in OpsVerseIds, mesora \in BOOLEAN : VerseStart(p, vid, mesora)
    \/ \E p \in Procs, r \in VerseReturns : VerseResume(p, r)
    \/ \E d \in OpsTickSteps : OpsTick(d)

SpecOps == OpsInit /\ [][OpsNext]_vars

SpecParse == ParseInit /\ [][ParseNext]_vars

(***************************************************************************)
(* find_hebrew: building the blocks of the hits                            *)
(***************************************************************************)
\* BATCH = 10
BATCH == 10

\* Most hits a search hands to the loop.
MaxHits == 21

Min(a, b) == IF a <= b THEN a ELSE b

\* Variant: no slicing, every remaining hit is gathered at once.
Chunk_All(i, n) == (i + 1)..n

\* chunk = hits[i:i+BATCH], as the numbers of its hits (the first hit is 1).
Chunk(i, n) == (i + 1)..Min(i + BATCH, n)

\* The inputs of a run of the loop: how many hits, and which of them make
\* build_block raise (api_bible_get_he_text fails): none, the first, the last.
BadChoices(n) == {{}, {1}, {n}}

BatchInit ==
    /\ fetchFn = "none"
    /\ fetchPc = "idle"
    /\ attempt = 0
    /\ gets = 0
    /\ sleeps = <<>>
    /\ seen = <<>>
    /\ fetchRet = NoRet
    /\ cache = EmptyCache
    /\ now = 0
    /\ ticks = 0
    /\ written = EmptyCache
    /\ lastCall = NoCall
    /\ prog = "bot.py"
    /\ parseIn = NoInput
    /\ parseOut = NotRun
    /\ procs = [p \in Procs |-> IdleProc]
    /\ served = EmptyCache
    /\ fhHits \in 1..MaxHits
    /\ fhBad \in BadChoices(fhHits)
    /\ fhI = 0
    /\ fhSub = [j \in 1..fhHits |-> "pending"]
    /\ fhPc = "loop"
    /\ fhBlocks = 0
    /\ splitIn = NoSplitIn
    /\ splitOut = NotSplit
    /\ srIn = NoSearchIn
    /\ sr = IdleSearch
    /\ hl = IdleHl
    /\ fa = IdleFetchAll
    /\ view = NoView

\* for i in range(0, len(hits), BATCH): the next chunk is handed to
\* asyncio.gather, which schedules one build_block per hit of the chunk;
\* after the last chunk the command goes on to build its view.
FhLoop ==
    /\ fhPc = "loop"
    /\ IF fhI < fhHits
       THEN /\ fhSub' = [j \in 1..fhHits |->
                            IF j \in Chunk(fhI, fhHits) THEN "running" ELSE fhSub[j]]
            /\ fhPc' = "gather"
       ELSE /\ fhPc' = "view"
            /\ fhSub' = fhSub
    /\ UNCHANGED <<fhHits, fhBad, fhI, fhBlocks>>
    /\ UNCHANGED <<fetchVars, cacheVars, prog, parseVars, opsVars, splitVars, searchVars, restVars>>

\* One build_block runs to its end: it returns its block, or raises when
\* the Hebrew text cannot be fetched.
FhSubFinish(j) ==
    /\ j \in 1..fhHits
    /\ fhSub[j] = "running"
    /\ fhSub' = [fhSub EXCEPT ![j] = IF j \in fhBad THEN "failed" ELSE "done"]
    /\ UNCHANGED <<fhHits, fhBad, fhI, fhPc, fhBlocks>>
    /\ UNCHANGED <<fetchVars, cacheVars, prog, parseVars, opsVars, splitVars, searchVars, restVars>>

\* await asyncio.gather(...) returns the blocks once every build_block of
\* the chunk has returned; blocks.extend(...), next pass of the loop.
FhGatherReturn ==
    /\ fhPc = "gather"
    /\ \A j \in Chunk(fhI, fhHits) : fhSub[j] = "done"
    /\ fhBlocks' = fhBlocks + Cardinality(Chunk(fhI, fhHits))
    /\ fhI' = fhI + BATCH
    /\ fhPc' = "loop"
    /\ UNCHANGED <<fhHits, fhBad, fhSub>>
    /\ UNCHANGED <<fetchVars, cacheVars, prog, parseVars, opsVars, splitVars, searchVars, restVars>>

\* await asyncio.gather(...) raises as soon as one build_block has raised;
\* the others of the chunk are not cancelled.  The exception leaves
\* find_hebrew.
FhGatherRaise ==
    /\ fhPc = "gather"
    /\ \E j \in Chunk(fhI, fhHits) : fhSub[j] = "failed"
    /\ fhPc' = "raised"
    /\ UNCHANGED <<fhHits, fhBad, fhI, fhSub, fhBlocks>>
    /\ UNCHANGED <<fetchVars, cacheVars, prog, parseVars, opsVars, splitVars, searchVars, restVars>>

BatchNext ==
    \/ FhLoop
    \/ \E j \in 1..MaxHits : FhSubFinish(j)
    \/ FhGatherReturn
    \/ FhGatherRaise

SpecBatch == BatchInit /\ [][BatchNext]_vars

(***************************************************************************)
(* _split_for_embeds                                                       *)
(*                                                                         *)
(* Here a str is the flat sequence of its characters, "\n" included.       *)
(***************************************************************************)
\* Most lines handed to a call, and the largest limit.
MaxLines == 3
MaxLimit == 8

\* The lines a caller passes: empty, blank, with and without white space
\* around them, of lengths 1, 3 and 5.
SplitLineChoices ==
    { <<>>, <<" ">>, <<"a">>, <<" ", "b", " ">>, <<"c", " ", "c">>,
      <<"d", "d", "d", "d", "d">> }

\* All lists of at most n lines.
RECURSIVE LineLists(_)
LineLists(n) ==
    IF n = 0 THEN {<<>>}
    ELSE LET shorter == LineLists(n - 1)
         IN shorter \cup {Append(l, x) : l \in {y \in shorter : Len(y) = n - 1},
                                          x \in SplitLineChoices}

\* s.rstrip()
RStripFlat(s) ==
    LET idx == {i \in 1..Len(s) : ~IsSpace(s[i])} IN
    IF idx = {} THEN <<>>
    ELSE SubSeq(s, 1, CHOOSE i \in idx : \A j \in idx : i >= j)

\* add = (line.strip() + "\n\n")
AddOf(line) == Strip(line) \o <<"\n", "\n">>

\* {"title": title, "description": buf.rstrip(), "footer": footer}
EmbedChunk(title, footer, buf) ==
    [title |-> title, description |-> RStripFlat(buf), footer |-> footer]

\* Variant: only the buffer is measured.
Overflows_BufOnly(buf, add, limit) == Len(buf) > limit

\* len(buf) + len(add) > limit
Overflows(buf, add, limit) == Len(buf) + Len(add) > limit

\* Variant: the line that did not fit is not carried over.
AfterFlush_Empty(add) == <<>>

\* buf = add, after the buffer was sealed into a chunk.
AfterFlush(add) == add

\* The for loop from line number k on, then the final `if buf:`.
RECURSIVE SplitLoop(_, _, _, _, _, _, _)
SplitLoop(title, footer, lines, limit, k, buf, chunks) ==
    IF k > Len(lines)
    THEN IF buf # <<>> THEN Append(chunks, EmbedChunk(title, footer, buf)) ELSE chunks
    ELSE LET add == AddOf(lines[k]) IN
         IF Overflows(buf, add, limit) /\ buf # <<>>
         THEN SplitLoop(title, footer, lines, limit, k + 1, AfterFlush(add),
                        Append(chunks, EmbedChunk(title, footer, buf)))
         ELSE SplitLoop(title, footer, lines, limit, k + 1, buf \o add, chunks)

\* _split_for_embeds(title, footer, lines, limit)
split_for_embeds(title, footer, lines, limit) ==
    SplitLoop(title, footer, lines, limit, 1, <<>>, <<>>)

SplitInit ==
    /\ fetchFn = "none"
    /\ fetchPc = "idle"
    /\ attempt = 0
    /\ gets = 0
    /\ sleeps = <<>>
    /\ seen = <<>>
    /\ fetchRet = NoRet
    /\ cache = EmptyCache
    /\ now = 0
    /\ ticks = 0
    /\ written = EmptyCache
    /\ lastCall = NoCall
    /\ prog = "bot.py"
    /\ parseIn = NoInput
    /\ parseOut = NotRun
    /\ procs = [p \in Procs |-> IdleProc]
    /\ served = EmptyCache
    /\ fhHits = 0
    /\ fhBad = {}
    /\ fhI = 0
    /\ fhSub = <<>>
    /\ fhPc = "idle"
    /\ fhBlocks = 0
    /\ splitIn \in [title : {"T"}, footer : {"F"}, lines : LineLists(MaxLines),
                    limit : 1..MaxLimit]
    /\ splitOut = NotSplit
    /\ srIn = NoSearchIn
    /\ sr = IdleSearch
    /\ hl = IdleHl
    /\ fa = IdleFetchAll
    /\ view = NoView

\* A caller runs _split_for_embeds(title, footer, lines, limit).
SplitRun ==
    /\ splitOut = NotSplit
    /\ splitOut' = [done |-> TRUE,
                    chunks |-> split_for_embeds(splitIn.title, splitIn.footer,
                                                splitIn.lines, splitIn.limit)]
    /\ UNCHANGED <<fetchVars, cacheVars, prog, parseVars, opsVars, batchVars, splitIn, searchVars, restVars>>

SplitNext == SplitRun

SpecSplit == SplitInit /\ [][SplitNext]_vars

(***************************************************************************)
(* biblia_info_search_phrase_api                                           *)
(*                                                                         *)
(* Here a str is the flat sequence of its characters, and a value decoded  *)
(* by json.loads is a record [jt, v]: jt is "null", "str", "int", "list"   *)
(* or "dict"; v is the characters of a str, the number of an int, the      *)
(* items of a list, and for a dict the sequence of its [k, v] items in     *)
(* the order of the payload.                                               *)
(***************************************************************************)
\* bool(x)
JTruthy(x) ==
    CASE x.jt = "null" -> FALSE
      [] x.jt = "int" -> x.v # 0
      [] OTHER -> x.v # <<>>

\* k in d
JHas(d, k) == \E i \in 1..Len(d.v) : d.v[i].k = k

\* d.get(k)
JGet(d, k) == IF JHas(d, k) THEN d.v[CHOOSE i \in 1..Len(d.v) : d.v[i].k = k].v ELSE JNone

\* d.get(keys[1]) or d.get(keys[2]) or ... or default
RECURSIVE FirstTruthy(_, _, _)
FirstTruthy(d, keys, default) ==
    IF keys = <<>> THEN default
    ELSE IF JTruthy(JGet(d, Head(keys))) THEN JGet(d, Head(keys))
    ELSE FirstTruthy(d, Tail(keys), default)

\* The number a run of decimal digits writes.
DigitValue(c) == CHOOSE n \in 0..9 : <<"0", "1", "2", "3", "4", "5", "6", "7", "8", "9">>[n + 1] = c
RECURSIVE NumberOf(_)
NumberOf(ds) ==
    IF ds = <<>> THEN 0
    ELSE 10 * NumberOf(SubSeq(ds, 1, Len(ds) - 1)) + DigitValue(ds[Len(ds)])

\* str(n) of an int
RECURSIVE DigitsOf(_)
DigitsOf(n) ==
    IF n < 0 THEN <<"-">> \o DigitsOf(0 - n)
    ELSE IF n < 10 THEN <<<<"0", "1", "2", "3", "4", "5", "6", "7", "8", "9">>[n + 1]>>
    ELSE DigitsOf(n \div 10) \o DigitsOf(n % 10)

\* The concatenation of the strings of a sequence, sep between them.
RECURSIVE Join(_, _)
Join(parts, sep) ==
    IF parts = <<>> THEN <<>>
    ELSE IF Len(parts) = 1 THEN parts[1]
    ELSE parts[1] \o sep \o Join(Tail(parts), sep)

\* repr of one character of a str written between the quotes q.
ReprChar(c, q) ==
    CASE c = "\\" -> <<"\\", "\\">>
      [] c = q -> <<"\\", c>>
      [] c = "\n" -> <<"\\", "n">>
      [] c = "\t" -> <<"\\", "t">>
      [] c = "\r" -> <<"\\", "r">>
      [] c = "nbsp" -> <<"\\", "x", "a", "0">>
      [] OTHER -> <<c>>

\* repr(s) of a str: between single quotes, between double quotes when it
\* holds a single quote and no double one.
ReprStr(s) ==
    LET has(c) == \E i \in 1..Len(s) : s[i] = c
        q == IF has("'") /\ ~has("\"") THEN "\"" ELSE "'"
    IN <<q>> \o Join([i \in 1..Len(s) |-> ReprChar(s[i], q)], <<>>) \o <<q>>

\* repr(x) and, for a list or a dict, of its items.
RECURSIVE Repr(_), ReprItems(_, _)
Repr(x) ==
    CASE x.jt = "null" -> <<"N", "o", "n", "e">>
      [] x.jt = "int" -> DigitsOf(x.v)
      [] x.jt = "str" -> ReprStr(x.v)
      [] x.jt = "list" -> <<"[">> \o ReprItems(x.v, FALSE) \o <<"]">>
      [] OTHER -> <<"{">> \o ReprItems(x.v, TRUE) \o <<"}">>
ReprItems(items, keyed) ==
    IF items = <<>> THEN <<>>
    ELSE LET one == IF keyed
                    THEN ReprStr(Head(items).k) \o <<":", " ">> \o Repr(Head(items).v)
                    ELSE Repr(Head(items))
         IN IF Len(items) = 1 THEN one
            ELSE one \o <<",", " ">> \o ReprItems(Tail(items), keyed)

\* str(x)
PyStr(x) == IF x.jt = "str" THEN x.v ELSE Repr(x)

\* White space of str.strip() and of \s: the no-break space is part of it.
IsWhite(c) == IsSpace(c) \/ c \in {"nbsp", "\r"}

\* s.strip()
StripWs(s) ==
    LET idx == {i \in 1..Len(s) : ~IsWhite(s[i])} IN
    IF idx = {} THEN <<>>
    ELSE LET a == CHOOSE i \in idx : \A j \in idx : i <= j
             b == CHOOSE i \in idx : \A j \in idx : i >= j
         IN Slice(s, a, b)

\* Length of the run of white space that starts at position from.
WhiteRun(s, from) ==
    LET ends == {e \in (from - 1)..Len(s) : \A i \in from..e : IsWhite(s[i])}
    IN (CHOOSE e \in ends : \A f \in ends : e >= f) - (from - 1)

\* The literal lit stands at position i of s.
StartsAt(s, i, lit) ==
    /\ i + Len(lit) - 1 <= Len(s)
    /\ \A j \in 1..Len(lit) : s[i + j - 1] = lit[j]

\* The first position at or after from where lit stands, letter case
\* ignored; 0 when there is none.
FindCI(s, from, lit) ==
    LET at == {i \in from..Len(s) : HasPrefixCI(s, i, lit)} IN
    IF at = {} THEN 0 ELSE CHOOSE i \in at : \A j \in at : i <= j

\* lit in s
Contains(s, lit) == \E i \in 1..Len(s) : StartsAt(s, i, lit)

\* s.replace(lit, rep)
RECURSIVE Replace(_, _, _)
Replace(s, lit, rep) ==
    IF s = <<>> THEN <<>>
    ELSE IF StartsAt(s, 1, lit) THEN rep \o Replace(SubSeq(s, Len(lit) + 1, Len(s)), lit, rep)
    ELSE <<Head(s)>> \o Replace(Tail(s), lit, rep)

\* Character references html.unescape resolves in the texts of the provider.
ENTITIES ==
    << [ref |-> <<"&", "a", "m", "p", ";">>, ch |-> "&"],
       [ref |-> <<"&", "l", "t", ";">>, ch |-> "<"],
       [ref |-> <<"&", "g", "t", ";">>, ch |-> ">"],
       [ref |-> <<"&", "n", "b", "s", "p", ";">>, ch |-> "nbsp"] >>

\* html.unescape(s): one pass from the left.
RECURSIVE Unescape(_)
Unescape(s) ==
    IF s = <<>> THEN <<>>
    ELSE LET hit == {e \in 1..Len(ENTITIES) : StartsAt(s, 1, ENTITIES[e].ref)} IN
         IF hit # {}
         THEN LET e == CHOOSE x \in hit : TRUE IN
              <<ENTITIES[e].ch>> \o Unescape(SubSeq(s, Len(ENTITIES[e].ref) + 1, Len(s)))
         ELSE <<Head(s)>> \o Unescape(Tail(s))

\* re.sub(r"(?is)<NAME.*?>.*?</NAME>", "", s) for NAME style or script.
RECURSIVE DropElement(_, _)
DropElement(s, name) ==
    IF s = <<>> THEN <<>>
    ELSE LET gt == IF HasPrefixCI(s, 1, <<"<">> \o name)
                   THEN FindCI(s, Len(name) + 2, <<">">>) ELSE 0
             close == IF gt = 0 THEN 0 ELSE FindCI(s, gt + 1, <<"<", "/">> \o name \o <<">">>)
         IN IF close # 0
            THEN DropElement(SubSeq(s, close + Len(name) + 3, Len(s)), name)
            ELSE <<Head(s)>> \o DropElement(Tail(s), name)

\* re.sub(r"(?is)<[^>]+>", "", s)
RECURSIVE DropTags(_)
DropTags(s) ==
    IF s = <<>> THEN <<>>
    ELSE LET gt == IF s[1] = "<" THEN FindCI(s, 2, <<">">>) ELSE 0 IN
         IF gt > 2 THEN DropTags(SubSeq(s, gt + 1, Len(s)))
         ELSE <<Head(s)>> \o DropTags(Tail(s))

\* re.sub(r"(?is)</?strong[^>]*>", "", s)
RECURSIVE DropStrong(_)
DropStrong(s) ==
    IF s = <<>> THEN <<>>
    ELSE LET name == <<"s", "t", "r", "o", "n", "g">>
             after == IF HasPrefixCI(s, 1, <<"<">> \o name) THEN 8
                      ELSE IF HasPrefixCI(s, 1, <<"<", "/">> \o name) THEN 9
                      ELSE 0
             gt == IF after = 0 THEN 0 ELSE FindCI(s, after, <<">">>)
         IN IF gt # 0 THEN DropStrong(SubSeq(s, gt + 1, Len(s)))
            ELSE <<Head(s)>> \o DropStrong(Tail(s))

\* Length of the run of characters of the set cls that starts at from.
RunOf(s, from, cls) ==
    LET ends == {e \in (from - 1)..Len(s) : \A i \in from..e : s[i] \in cls}
    IN (CHOOSE e \in ends : \A f \in ends : e >= f) - (from - 1)

\* re.sub(r"\r?\n[ \t]*\r?\n+", "\n", s)
RECURSIVE SquashBlankLines(_)
SquashBlankLines(s) ==
    IF s = <<>> THEN <<>>
    ELSE LET p1 == IF s[1] = "\r" THEN 2 ELSE 1
             p2 == IF p1 <= Len(s) /\ s[p1] = "\n"
                   THEN p1 + 1 + RunOf(s, p1 + 1, {" ", "\t"}) ELSE 0
             p3 == IF p2 = 0 THEN 0
                   ELSE IF p2 <= Len(s) /\ s[p2] = "\r" THEN p2 + 1 ELSE p2
             n == IF p3 = 0 THEN 0 ELSE RunOf(s, p3, {"\n"})
         IN IF n > 0 THEN <<"\n">> \o SquashBlankLines(SubSeq(s, p3 + n, Len(s)))
            ELSE <<Head(s)>> \o SquashBlankLines(Tail(s))

\* re.sub(r"[ \t]+", " ", s)
RECURSIVE SquashSpaces(_)
SquashSpaces(s) ==
    IF s = <<>> THEN <<>>
    ELSE LET n == RunOf(s, 1, {" ", "\t"}) IN
         IF n > 0 THEN <<" ">> \o SquashSpaces(SubSeq(s, n + 1, Len(s)))
         ELSE <<Head(s)>> \o SquashSpaces(Tail(s))

\* _strip_tags(html) on a str given as its characters.
StripTagsStr(html) ==
    LET s1 == DropElement(html, <<"s", "t", "y", "l", "e">>)
        s2 == DropElement(s1, <<"s", "c", "r", "i", "p", "t">>)
        s3 == Replace(Replace(Replace(s2, <<"<", "b", "r", ">">>, <<"\n">>),
                              <<"<", "b", "r", "/", ">">>, <<"\n">>),
                      <<"<", "b", "r", " ", "/", ">">>, <<"\n">>)
    IN StripWs(Unescape(SquashSpaces(SquashBlankLines(DropTags(s3)))))

\* ast.literal_eval(raw): the value whose repr the str is, for the values
\* the provider is seen to write that way; Failed when the str is no literal.
Failed == [jt |-> "failed", v |-> <<>>]
Literals ==
    { JList(<<JDict(<<KV(<<"t", "e", "x", "t">>, JStr(<<"P", "a", "n", " ", "j", "e", "s", "t">>))>>)>>),
      JList(<<JInt(3)>>) }
LiteralOf(raw, found) == IF found = {} THEN Failed ELSE CHOOSE x \in found : TRUE
literal_eval(raw) == LiteralOf(raw, {x \in Literals : Repr(x) = raw})

\* The quotation marks of _TEXT_KEY_RE: ", ' and the curly double quotes,
\* written "ldq" and "rdq".
Quotes == {"\"", "'", "ldq", "rdq"}

\* Where the match of _TEXT_KEY_RE that starts at position i ends, and its
\* group 2; stop is 0 when there is no match at i.
TextKeyAt(s, i) ==
    LET key == <<"t", "e", "x", "t">>
        p1 == IF i + 5 <= Len(s) /\ s[i] \in Quotes /\ HasPrefixCI(s, i + 1, key)
                 /\ s[i + 5] \in Quotes
              THEN i + 6 + WhiteRun(s, i + 6) ELSE 0
        p2 == IF p1 # 0 /\ p1 <= Len(s) /\ s[p1] = ":"
              THEN p1 + 1 + WhiteRun(s, p1 + 1) ELSE 0
        open == IF p2 # 0 /\ p2 <= Len(s) /\ s[p2] \in Quotes THEN p2 ELSE 0
        closes == IF open = 0 THEN {} ELSE {j \in (open + 1)..Len(s) : s[j] \in Quotes}
        stop == IF closes = {} THEN 0 ELSE CHOOSE j \in closes : \A k \in closes : j <= k
    IN [stop |-> stop, text |-> IF stop = 0 THEN <<>> ELSE Slice(s, open + 1, stop - 1)]

\* The first position at or after i where _TEXT_KEY_RE matches, 0 when
\* there is none.
TextKeyFrom(s, i) ==
    LET at == {j \in i..Len(s) : TextKeyAt(s, j).stop # 0} IN
    IF at = {} THEN 0 ELSE CHOOSE j \in at : \A k \in at : j <= k

\* [m.group(2) for m in _TEXT_KEY_RE.finditer(s)], searching from position
\* i; j is where the next match starts.
RECURSIVE TextKeyMatches(_, _), TextKeyNext(_, _)
TextKeyMatches(s, i) == TextKeyNext(s, TextKeyFrom(s, i))
TextKeyNext(s, j) ==
    IF j = 0 THEN <<>>
    ELSE <<TextKeyAt(s, j).text>> \o TextKeyMatches(s, TextKeyAt(s, j).stop + 1)

\* The part _coerce_text_block takes from one item of a list: the str of
\* its "text" when the item is a dict and that is not empty, the item when
\* it is a str.
DictPart(vtx) == IF vtx # <<>> THEN <<vtx>> ELSE <<>>
CoercePart(it) ==
    IF it.jt = "dict" THEN DictPart(PyStr(FirstTruthy(it, <<<<"t", "e", "x", "t">>>>, JStr(<<>>))))
    ELSE IF it.jt = "str" THEN <<it.v>>
    ELSE <<>>
RECURSIVE CoerceParts(_)
CoerceParts(items) ==
    IF items = <<>> THEN <<>> ELSE CoercePart(Head(items)) \o CoerceParts(Tail(items))

\* The except branch of _coerce_text_block: the texts the pattern finds,
\* joined; the str itself when there is none.
KeyedTexts(raw, texts) == IF texts # <<>> THEN Join(texts, <<" ">>) ELSE raw

\* _coerce_text_block(raw); parsed is ast.literal_eval(raw) where raw is a
\* str the function evaluates.
RECURSIVE coerce_text_block(_), CoerceParsed(_, _)
coerce_text_block(raw) ==
    IF raw.jt = "list" THEN Join(CoerceParts(raw.v), <<" ">>)
    ELSE IF raw.jt = "dict" THEN PyStr(FirstTruthy(raw, <<<<"t", "e", "x", "t">>>>, JStr(<<>>)))
    ELSE IF /\ raw.jt = "str"
            /\ Contains(raw.v, <<"t", "e", "x", "t">>)
            /\ (Contains(raw.v, <<"[">>) \/ Contains(raw.v, <<"{">>))
        THEN CoerceParsed(raw.v, literal_eval(raw.v))
    ELSE IF raw.jt = "null" THEN <<>>
    ELSE PyStr(raw)
CoerceParsed(raw, parsed) ==
    IF parsed # Failed THEN coerce_text_block(parsed)
    ELSE KeyedTexts(raw, TextKeyMatches(raw, 1))

\* [A-Za-zĄĆĘŁŃÓŚŹŻąćęłńóśźż]
IsLetter(c) == \E i \in 1..Len(LOWER) : c = LOWER[i] \/ c = UPPER[i]

\* len(s) >= 5 and re.search(r"[A-Za-z...]", s) is not None
LongWithLetter(s) == Len(s) >= 5 /\ \E i \in 1..Len(s) : IsLetter(s[i])

\* _is_texty(s)
is_texty(s) == s # <<>> /\ LongWithLetter(StripWs(s))

\* _extract_all_texts_from_any(raw)
extract_all_texts_from_any(raw) ==
    Join(SelectSeq(TextKeyMatches(raw, 1), LAMBDA p : p # <<>>), <<" ">>)

\* The keys _longest_string_record passes over.
BAN ==
    { <<"b", "o", "o", "k">>, <<"c", "h", "a", "p", "t", "e", "r">>,
      <<"r", "o", "z", "d", "z", "i", "a", "l">>, <<"v", "e", "r", "s", "e">>,
      <<"v", "e", "r", "s", "e", "s">>, <<"w", "e", "r", "s", "e", "t">>,
      <<"w", "e", "r", "s", "e", "t", "y">>, <<"r", "a", "n", "g", "e">> }

\* _longest_string_record(rec): max(cand, key=len) is the first of the
\* longest candidates.
FirstLongest(cand) ==
    CHOOSE a \in 1..Len(cand) :
        /\ \A b \in 1..Len(cand) : Len(cand[a]) >= Len(cand[b])
        /\ \A b \in 1..(a - 1) : Len(cand[b]) < Len(cand[a])
LongestOf(cand) == IF cand = <<>> THEN <<>> ELSE StripWs(cand[FirstLongest(cand)])
StrValues(rec) ==
    LET cand == SelectSeq(rec.v, LAMBDA it : it.k \notin BAN /\ it.v.jt = "str") IN
    [i \in 1..Len(cand) |-> cand[i].v.v]
longest_string_record(rec) == LongestOf(StrValues(rec))

\* The words of re.split(r"\s+", t) that are not empty, t being stripped.
RECURSIVE Words(_)
Words(t) ==
    IF t = <<>> THEN <<>>
    ELSE IF IsWhite(t[1]) THEN Words(Tail(t))
    ELSE LET n == CHOOSE e \in 1..Len(t) :
                    /\ \A i \in 1..e : ~IsWhite(t[i])
                    /\ (e = Len(t) \/ IsWhite(t[e + 1]))
         IN <<SubSeq(t, 1, n)>> \o Words(SubSeq(t, n + 1, Len(t)))

\* sorted(words, key=len, reverse=True): the longest first, equal lengths
\* in their order.
Without(ws, i) == SubSeq(ws, 1, i - 1) \o SubSeq(ws, i + 1, Len(ws))
RECURSIVE LongestFirst(_), LongestThen(_, _)
LongestFirst(ws) == IF ws = <<>> THEN <<>> ELSE LongestThen(ws, FirstLongest(ws))
LongestThen(ws, i) == <<ws[i]>> \o LongestFirst(Without(ws, i))

\* re.sub(re.escape(w), repl, hay, flags=re.IGNORECASE) with repl
\* wrapping the match in "**".
RECURSIVE Embolden(_, _)
Embolden(hay, w) ==
    IF hay = <<>> THEN <<>>
    ELSE IF HasPrefixCI(hay, 1, w)
        THEN <<"*", "*">> \o SubSeq(hay, 1, Len(w)) \o <<"*", "*">>
             \o Embolden(SubSeq(hay, Len(w) + 1, Len(hay)), w)
    ELSE <<Head(hay)>> \o Embolden(Tail(hay), w)

RECURSIVE EmboldenAll(_, _)
EmboldenAll(hay, ws) ==
    IF ws = <<>> THEN hay ELSE EmboldenAll(Embolden(hay, Head(ws)), Tail(ws))

\* _highlight_case_insensitive(hay, needle)
highlight_case_insensitive(hay, needle) ==
    IF hay = <<>> \/ needle = <<>> THEN hay
    ELSE EmboldenAll(hay, LongestFirst(Words(StripWs(needle))))

\* _to_int(x): int(str(x).strip()), None when int() raises.  int() takes a
\* sign and digits, with single underscores between digits.
Unsigned(body) ==
    IF /\ body # <<>>
       /\ \A i \in 1..Len(body) :
             \/ IsDigit(body[i])
             \/ body[i] = "_" /\ 1 < i /\ i < Len(body) /\ IsDigit(body[i - 1]) /\ IsDigit(body[i + 1])
    THEN JInt(NumberOf(SelectSeq(body, LAMBDA c : c # "_")))
    ELSE JNone
Negated(n) == IF n = JNone THEN JNone ELSE JInt(0 - n.v)
IntOf(s) ==
    IF s # <<>> /\ s[1] = "-" THEN Negated(Unsigned(Tail(s)))
    ELSE IF s # <<>> /\ s[1] = "+" THEN Unsigned(Tail(s))
    ELSE Unsigned(s)
to_int(x) == IntOf(StripWs(PyStr(x)))

\* re.match(r"^\s*(\d+)\s*-\s*(\d+)\s*$", s): the two numbers, ok FALSE
\* when s does not match.
RangeMatch(s) ==
    LET a == 1 + WhiteRun(s, 1)
        n1 == DigitRun(s, a)
        d == a + n1 + WhiteRun(s, a + n1)
        b == d + 1 + WhiteRun(s, d + 1)
        n2 == DigitRun(s, b)
        e == b + n2 + WhiteRun(s, b + n2)
    IN IF n1 > 0 /\ d <= Len(s) /\ s[d] = "-" /\ n2 > 0 /\ e = Len(s) + 1
       THEN [ok |-> TRUE, start |-> NumberOf(SubSeq(s, a, a + n1 - 1)),
             end |-> NumberOf(SubSeq(s, b, b + n2 - 1))]
       ELSE [ok |-> FALSE, start |-> 0, end |-> 0]

\* re.search(r"\b(\d+)\b", s): group 1, "" when there is no match.
FirstNumber(s) ==
    LET at == {i \in 1..Len(s) :
                 /\ IsDigit(s[i])
                 /\ (i = 1 \/ ~IsWordChar(s[i - 1]))
                 /\ LET e == i + DigitRun(s, i) IN e > Len(s) \/ ~IsWordChar(s[e])}
    IN IF at = {} THEN <<>>
       ELSE LET i == CHOOSE a \in at : \A b \in at : a <= b IN SubSeq(s, i, i + DigitRun(s, i) - 1)

\* re.sub(rf"^\s*{re.escape(verse)}[.)]\s*", "", txt)
DropVersePrefix(txt, verse) ==
    LET a == 1 + WhiteRun(txt, 1)
        b == a + Len(verse)
    IN IF StartsAt(txt, a, verse) /\ b <= Len(txt) /\ txt[b] \in {".", ")"}
       THEN SubSeq(txt, b + 1 + WhiteRun(txt, b + 1), Len(txt))
       ELSE txt

\* The keys the normaliser reads, in the order it tries them.
TOTAL_KEYS == <<<<"a", "l", "l", "_", "r", "e", "s", "u", "l", "t", "s">>, <<"t", "o", "t", "a", "l", "_", "r", "e", "s", "u", "l", "t", "s">>, <<"t", "o", "t", "a", "l">>, <<"h", "i", "t", "s", "_", "t", "o", "t", "a", "l">>, <<"c", "o", "u", "n", "t">>>>
RANGE_KEYS == <<<<"r", "e", "s", "u", "l", "t", "s", "_", "r", "a", "n", "g", "e">>, <<"r", "a", "n", "g", "e">>>>
SEQ_KEYS == <<<<"r", "e", "s", "u", "l", "t", "s">>, <<"h", "i", "t", "s">>, <<"d", "a", "t", "a">>, <<"i", "t", "e", "m", "s">>>>
BOOK_KEYS == <<<<"a", "b", "b", "r", "e", "v", "i", "a", "t", "i", "o", "n">>, <<"a", "b", "b", "r">>, <<"s", "h", "o", "r", "t">>, <<"s", "h", "o", "r", "t", "_", "n", "a", "m", "e">>, <<"n", "a", "m", "e">>>>
CHAPTER_KEYS == <<<<"c", "h", "a", "p", "t", "e", "r">>, <<"r", "o", "z", "d", "z", "i", "a", "l">>>>
VERSE_KEYS == <<<<"v", "e", "r", "s", "e">>, <<"v", "e", "r", "s", "e", "s">>, <<"w", "e", "r", "s", "e", "t">>, <<"w", "e", "r", "s", "e", "t", "y">>, <<"r", "a", "n", "g", "e">>>>
TEXT_KEYS == <<<<"t", "e", "x", "t">>, <<"c", "o", "n", "t", "e", "n", "t">>, <<"s", "n", "i", "p", "p", "e", "t">>, <<"f", "r", "a", "g", "m", "e", "n", "t">>, <<"t", "e", "k", "s", "t">>, <<"t", "r", "e", "s", "c">>, <<"h", "t", "m", "l">>>>

\* s.upper()
StrUpper(s) == [i \in 1..Len(s) |-> UpperChar(s[i])]

\* for k in (...): if k in data and total_all is None: total_all = _to_int(data.get(k))
RECURSIVE TotalOf(_, _, _)
TotalOf(data, keys, total_all) ==
    IF keys = <<>> THEN total_all
    ELSE TotalOf(data, Tail(keys),
                 IF JHas(data, Head(keys)) /\ total_all = JNone
                 THEN to_int(JGet(data, Head(keys))) ELSE total_all)

\* seq: the first of data["results"], data["hits"], data["data"],
\* data["items"] that is a list; the payload itself when it is a list.
RECURSIVE FirstList(_, _)
FirstList(data, keys) ==
    IF keys = <<>> THEN <<>>
    ELSE IF JGet(data, Head(keys)).jt = "list" THEN JGet(data, Head(keys)).v
    ELSE FirstList(data, Tail(keys))
SeqOf(data) ==
    IF data.jt = "dict" THEN FirstList(data, SEQ_KEYS)
    ELSE IF data.jt = "list" THEN data.v
    ELSE <<>>

\* Variant: a record with a book, a chapter and a verse is kept whatever
\* is left of its text.
Complete_AnyText(b_disp, chapter, verse, txt) ==
    b_disp # <<>> /\ chapter # <<>> /\ verse # <<>> /\ txt # <<>>

\* b_disp and chapter and verse and _is_texty(txt)
Complete(b_disp, chapter, verse, txt) ==
    b_disp # <<>> /\ chapter # <<>> /\ verse # <<>> /\ is_texty(txt)

\* verse: the first number of a value written as a list or a dict.
VerseOf(verse0) ==
    IF Contains(verse0, <<"[">>) \/ Contains(verse0, <<"{">>) THEN FirstNumber(verse0) ELSE verse0

\* txt: the coerced text, else the texts found in str(r), else the longest
\* string of the record, else "".
PickText(coerced, found, longest) ==
    IF is_texty(coerced) THEN coerced
    ELSE IF is_texty(found) THEN found
    ELSE IF is_texty(longest) THEN longest
    ELSE <<>>

\* if txt: unescape, drop <strong>, _strip_tags, strip
CleanText(txt) == IF txt # <<>> THEN StripWs(StripTagsStr(DropStrong(Unescape(txt)))) ELSE txt

\* if verse and txt: drop the verse number that leads the text
Unnumbered(txt, verse) == IF verse # <<>> /\ txt # <<>> THEN DropVersePrefix(txt, verse) ELSE txt

\* What one record comes to: exc is the exception it raises ("" when
\* none), keep tells whether a hit is appended, hit is that hit.  Beside
\* "ref" and "snippet" the hit of the model remembers the b_disp, chapter
\* and verse its ref was built from.
Raises(exc) ==
    [exc |-> exc, keep |-> FALSE,
     hit |-> [ref |-> <<>>, snippet |-> <<>>, book |-> <<>>, chapter |-> <<>>, verse |-> <<>>]]
HitOf(b_disp, chapter, verse, txt) ==
    [exc |-> "", keep |-> Complete(b_disp, chapter, verse, txt),
     hit |-> [ref |-> b_disp \o <<" ">> \o chapter \o <<":">> \o verse, snippet |-> txt,
              book |-> b_disp, chapter |-> chapter, verse |-> verse]]

\* The body of `for r in seq` for a record that is a dict, from the verse
\* on, from the display name on, from the book on.
VersedRecord(r, b_disp, verse) ==
    HitOf(b_disp,
          StripWs(PyStr(FirstTruthy(r, CHAPTER_KEYS, JStr(<<>>)))),
          verse,
          Unnumbered(CleanText(PickText(coerce_text_block(FirstTruthy(r, TEXT_KEYS, JStr(<<>>))),
                                        extract_all_texts_from_any(PyStr(r)),
                                        longest_string_record(r))),
                     verse))
NamedRecord(r, name) ==
    IF name.jt # "str" THEN Raises("AttributeError")
    ELSE VersedRecord(r, StrUpper(StripWs(name.v)),
                      VerseOf(Replace(StripWs(PyStr(FirstTruthy(r, VERSE_KEYS, JStr(<<>>)))),
                                      <<",">>, <<":">>)))
BookRecord(r, book) ==
    IF book.jt # "dict" THEN Raises("AttributeError")
    ELSE NamedRecord(r, FirstTruthy(book, BOOK_KEYS, JStr(<<>>)))
NormalizeRecord(r) == BookRecord(r, FirstTruthy(r, <<<<"b", "o", "o", "k">>>>, JDict(<<>>)))

\* for r in seq: ...  from record k on, out being the hits so far; n is
\* what record k comes to.
RECURSIVE NormalizeFrom(_, _, _), NormalizeNext(_, _, _, _)
NormalizeFrom(seq, k, out) ==
    IF k > Len(seq) THEN [exc |-> "", out |-> out]
    ELSE IF seq[k].jt # "dict" THEN NormalizeFrom(seq, k + 1, out)
    ELSE NormalizeNext(seq, k, out, NormalizeRecord(seq[k]))
NormalizeNext(seq, k, out, n) ==
    IF n.exc # "" THEN [exc |-> n.exc, out |-> out]
    ELSE NormalizeFrom(seq, k + 1, IF n.keep THEN Append(out, n.hit) ELSE out)

\* The locals the loop body leaves at `if out:`, or the exception it raised.
Locals(exc, total_all, range_start, range_end, out) ==
    [exc |-> exc, total_all |-> total_all, range_start |-> range_start,
     range_end |-> range_end, out |-> out]
Ranged(m, n, total_all, range_start, range_end) ==
    Locals(n.exc, total_all,
           IF m.ok THEN JInt(m.start) ELSE range_start,
           IF m.ok THEN JInt(m.end) ELSE range_end,
           n.out)
DigestRange(rstr, data, total_all, range_start, range_end, out) ==
    IF rstr.jt # "str" THEN Locals("AttributeError", total_all, range_start, range_end, out)
    ELSE Ranged(RangeMatch(StripWs(rstr.v)), NormalizeFrom(SeqOf(data), 1, out),
                total_all, range_start, range_end)

\* What the loop body makes of a decoded payload up to `if out:`.
Digest(data, total_all, range_start, range_end, out) ==
    IF data.jt = "dict"
    THEN DigestRange(FirstTruthy(data, RANGE_KEYS, JStr(<<>>)), data,
                     TotalOf(data, TOTAL_KEYS, total_all), range_start, range_end, out)
    ELSE DigestRange(JStr(<<>>), data, total_all, range_start, range_end, out)

\* range_end = range_start + len(out) - 1, cut at total_all when that is
\* truthy and smaller.
RangeEndOf(range_start, n, total_all) ==
    IF JTruthy(total_all) /\ range_start + n - 1 > total_all.v THEN total_all.v
    ELSE range_start + n - 1

\* The meta of a result: the range as the provider gave it, or estimated
\* from page, limit and the number of hits.
MetaOf(page, limit, d) ==
    IF d.range_start = JNone \/ d.range_end = JNone
    THEN [page |-> page, limit |-> limit,
          total |-> IF d.total_all # JNone THEN d.total_all.v ELSE Len(d.out),
          start |-> (page - 1) * limit + 1,
          end |-> RangeEndOf((page - 1) * limit + 1, Len(d.out), d.total_all)]
    ELSE [page |-> page, limit |-> limit,
          total |-> IF d.total_all # JNone THEN d.total_all.v ELSE Len(d.out),
          start |-> d.range_start.v,
          end |-> d.range_end.v]

\* Bounds of the search runs: the highest page asked for, the number of
\* hit records of a payload, the number of times a query is made.
MaxPage == 2
MaxRecs == 3
MaxSearchCalls == 2

\* Hit records of the provider.  A well-formed one:
\* {"book": {"abbreviation": "Rdz"}, "chapter": 1, "verse": v, "text": ...}.
GoodBook == JDict(<<KV(<<"a", "b", "b", "r", "e", "v", "i", "a", "t", "i", "o", "n">>, JStr(<<"R", "d", "z">>))>>)
Rec(book, chapter, verse, text) ==
    JDict(<<KV(<<"b", "o", "o", "k">>, book), KV(<<"c", "h", "a", "p", "t", "e", "r">>, chapter), KV(<<"v", "e", "r", "s", "e">>, verse), KV(<<"t", "e", "x", "t">>, text)>>)
GoodRec(v) == Rec(GoodBook, JInt(1), JInt(v), JStr(<<"N", "a", " ", "p", "o", "c", "z", "a", "t", "k", "u", " ", "P", "a", "n">>))

\* The shapes a field is seen in: the book as an object, a string, a
\* number, an object whose abbreviation is a number or blank, absent; the
\* chapter and the verse as a number, a string, a written list, zero, absent;
\* the text plain, too short, without a letter, marked up, numbered,
\* escaped, as a list, as an object, as a written list, as a broken one,
\* absent.
BookShapes ==
    { JStr(<<"R", "d", "z">>), JInt(1), JDict(<<KV(<<"a", "b", "b", "r", "e", "v", "i", "a", "t", "i", "o", "n">>, JInt(1))>>),
      JDict(<<KV(<<"a", "b", "b", "r">>, JStr(<<" ", " ">>)), KV(<<"n", "a", "m", "e">>, JStr(<<" ", "J", "a", "n", "a", " ">>))>>),
      JDict(<<KV(<<"a", "b", "b", "r">>, JStr(<<" ", " ">>))>>), JNone }
ChapterShapes == {JStr(<<" ", "1", " ">>), JInt(0), JNone}
VerseShapes == {JStr(<<"3", ",", "4">>), JStr(Repr(JList(<<JInt(3)>>))), JStr(<<"[", "x", "]">>), JNone}
TextShapes ==
    { JStr(<<"a", "b", "c">>), JStr(<<"1", "2", "3", "4", "5">>), JStr(<<"<", "i", ">", "o", "n", "<", "/", "i", ">">>), JStr(<<"<", "s", "t", "r", "o", "n", "g", ">", "P", "a", "n", "<", "/", "s", "t", "r", "o", "n", "g", ">", " ", "j", "e", "s", "t">>),
      JStr(<<"7", ".", " ", "o", "n">>), JStr(<<"7", ")", " ", "P", "a", "n", " ", "j", "e", "s", "t">>), JStr(<<"P", "a", "n", " ", "&", "a", "m", "p", ";", " ", "o", "n">>), JStr(<<"&", "l", "t", ";", "b", "&", "g", "t", ";", "P", "a", "n", " ", "j", "e", "s", "t">>),
      JList(<<JDict(<<KV(<<"t", "e", "x", "t">>, JStr(<<"P", "a", "n">>))>>), JStr(<<"j", "e", "s", "t">>), JInt(1)>>),
      JDict(<<KV(<<"t", "e", "x", "t">>, JStr(<<"P", "a", "n", " ", "j", "e", "s", "t">>))>>),
      JStr(Repr(JList(<<JDict(<<KV(<<"t", "e", "x", "t">>, JStr(<<"P", "a", "n", " ", "j", "e", "s", "t">>))>>)>>))),
      JStr(<<"[", "\"", "t", "e", "x", "t", "\"", ":", " ", "\"", "P", "a", "n", " ", "j", "e", "s", "t", "\"">>), JInt(12345), JNone }
ShapeRecords ==
    {Rec(b, JInt(1), JInt(7), JStr(<<"P", "a", "n", " ", "j", "e", "s", "t">>)) : b \in BookShapes}
    \cup {Rec(GoodBook, c, JInt(7), JStr(<<"P", "a", "n", " ", "j", "e", "s", "t">>)) : c \in ChapterShapes}
    \cup {Rec(GoodBook, JInt(1), v, JStr(<<"P", "a", "n", " ", "j", "e", "s", "t">>)) : v \in VerseShapes}
    \cup {Rec(GoodBook, JInt(1), JInt(7), t) : t \in TextShapes}
    \cup {JDict(<<KV(<<"b", "o", "o", "k">>, GoodBook), KV(<<"c", "h", "a", "p", "t", "e", "r">>, JInt(1)), KV(<<"v", "e", "r", "s", "e">>, JInt(7)),
                  KV(<<"t", "e", "x", "t">>, JStr(<<"a", "b", "c">>)), KV(<<"n", "o", "t", "e">>, JStr(<<" ", "P", "a", "n", " ", "j", "e", "s", "t", " ", "t", "u", " ">>))>>),
          JInt(7), JStr(<<"P", "a", "n", " ", "j", "e", "s", "t">>)}

\* The first n well-formed records.
Recs(n) == [v \in 1..n |-> GoodRec(v)]

\* Totals and ranges a payload reports: none, a number, a written number,
\* no number; none, a range, a number, no range.
TotalShapes == {JNone, JInt(2), JStr(<<" ", "7", " ">>), JStr(<<"x">>)}
RangeShapes == {JNone, JStr(<<" ", "1", " ", "-", " ", "3", " ">>), JInt(5), JStr(<<"a", "b", "c">>)}

\* Decoded payloads: one record of each shape under "results", alone and
\* before a well-formed one; up to n well-formed records with a total and a
\* range; a bare list; a number; the records under "hits" beside a
\* "results" that is no list.
Payloads(n) ==
    {JDict(<<KV(<<"r", "e", "s", "u", "l", "t", "s">>, JList(<<r>>))>>) : r \in ShapeRecords}
    \cup {JDict(<<KV(<<"r", "e", "s", "u", "l", "t", "s">>, JList(<<r, GoodRec(2)>>))>>) : r \in ShapeRecords}
    \cup {JDict(<<KV(<<"t", "o", "t", "a", "l">>, t), KV(<<"r", "a", "n", "g", "e">>, g), KV(<<"r", "e", "s", "u", "l", "t", "s">>, JList(Recs(k)))>>) :
            t \in TotalShapes, g \in RangeShapes, k \in 0..n}
    \cup {JList(Recs(1)), JInt(1),
          JDict(<<KV(<<"r", "e", "s", "u", "l", "t", "s">>, JStr(<<"x">>)), KV(<<"c", "o", "u", "n", "t">>, JInt(1)), KV(<<"h", "i", "t", "s">>, JList(Recs(2)))>>)}

\* What the provider of the search answers with, and what http_get_text
\* hands back to the search.
SearchOutcomes ==
    {Response(200, [kind |-> "json", val |-> p]) : p \in Payloads(MaxRecs)}
    \cup {Response(200, H_EMPTY), Response(200, H_PLAIN), Response(404, H_PLAIN),
          Response(503, H_EMPTY), NetworkError}
SearchReturns == HttpReturns("http_get_text", SearchOutcomes)

\* The calls made: pages 0..MaxPage and limits 2 and 30 of a phrase in a
\* known translation; an unknown translation; a blank phrase.
SearchCalls ==
    [trans : {"bw"}, phrase : {<<" ", "P", "a", "n", " ">>}, page : 0..MaxPage, limit : {2, 30}]
    \cup {[trans |-> "xx", phrase |-> <<" ", "P", "a", "n", " ">>, page |-> 1, limit |-> 5],
          [trans |-> "bw", phrase |-> <<" ", " ">>, page |-> 1, limit |-> 5]}

Max(a, b) == IF a >= b THEN a ELSE b

\* _cache_key_search_api(trans, phrase, limit, page)
SearchKey(trans, phrase, limit, page) ==
    <<"searchapi", trans, StrLower(StripWs(phrase)), limit, page>>

\* The two URLs of the API, and the page of the search a result links.
SearchUrls(code, phrase, page, limit) ==
    <<<<"search", code, phrase, page, limit>>, <<"szukaj", code, phrase, page, limit>>>>
SearchPageUrl(code, phrase, page) == <<"szukaj.php", phrase, code, page>>

\* not body
NoBody(body) == body.kind = "None" \/ (body.kind = "html" /\ body.val = <<>>)

\* h["snippet"] = _highlight_case_insensitive(h["snippet"], phrase) for h in out
Highlighted(out, phrase) ==
    [i \in 1..Len(out) |->
        [out[i] EXCEPT !.snippet = highlight_case_insensitive(out[i].snippet, phrase)]]

\* (out, search_page_url, meta)
Tuple3(out, url, meta) == [kind |-> "tuple", val |-> [hits |-> out, url |-> url, meta |-> meta]]

\* The call once its arguments passed validation: page and limit, key.
Prepared(c, phrase, page, limit) ==
    [IdleSearch EXCEPT !.page = page, !.limit = limit, !.cacheCalls = 1,
                       !.key = SearchKey(c.trans, phrase, limit, page)]

\* The call after its cache lookup: it returns what the lookup gave, or it
\* sends its first request.
Looked(c, me, cached) ==
    IF CacheHit(cached) THEN [me EXCEPT !.pc = "returned", !.ret = cached]
    ELSE [me EXCEPT !.pc = "http", !.i = 1,
                    !.reqs = <<SearchUrls(BIBLIA_INFO_CODES[c.trans], StripWs(c.phrase),
                                          me.page, me.limit)[1]>>]

\* biblia_info_search_phrase_api(trans, phrase, limit, page) up to its
\* first await: validation, page and limit, cache lookup, first request.
Entered(c, me) ==
    IF c.trans \notin DOMAIN BIBLIA_INFO_CODES \/ StripWs(c.phrase) = <<>>
    THEN [IdleSearch EXCEPT !.pc = "raised", !.exc = "ValueError"]
    ELSE Looked(c, me, cache_get(cache, me.key, now).ret)

\* A caller runs the search; a query is made again only once it has
\* returned.  estimated is kept with the result the cache hands back.
SearchStart(c) ==
    /\ \/ sr.pc = "idle"
       \/ sr.pc = "returned" /\ c = srIn /\ sr.calls < MaxSearchCalls
    /\ srIn' = c
    /\ sr' = [Entered(c, Prepared(c, StripWs(c.phrase), Max(1, c.page), Max(1, Min(25, c.limit))))
                EXCEPT !.calls = sr.calls + 1, !.estimated = sr.estimated,
                       !.records = sr.records]
    /\ cache' = IF c.trans \notin DOMAIN BIBLIA_INFO_CODES \/ StripWs(c.phrase) = <<>>
                THEN cache
                ELSE cache_get(cache, SearchKey(c.trans, StripWs(c.phrase),
                                                Max(1, Min(25, c.limit)), Max(1, c.page)), now).cache
    /\ UNCHANGED <<now, ticks, written, lastCall>>
    /\ UNCHANGED <<fetchVars, prog, parseVars, opsVars, batchVars, splitVars, restVars>>

\* What the answers of a call that found no hit were: every URL answered
\* 200, every URL ended with another status (the "<blocked>" pair of
\* http_get_text included), or some of each.
CauseOf(statuses) ==
    IF \A i \in 1..Len(statuses) : statuses[i] = 200 THEN "no_results"
    ELSE IF \A i \in 1..Len(statuses) : statuses[i] # 200 THEN "transport"
    ELSE "mixed"

\* raise RuntimeError(f"Brak wyników lub nierozpoznany format API (status
\* {last_status}). Body: {last_body[:300]}"): the exception the caller gets.
Failure(me) == [type |-> "RuntimeError", status |-> me.last_status]

\* The loop goes on without a result: the next URL, or the RuntimeError
\* after the loop.
Onward(me) ==
    IF me.i < 2
    THEN [me EXCEPT !.i = me.i + 1,
                    !.reqs = Append(me.reqs,
                                    SearchUrls(BIBLIA_INFO_CODES[srIn.trans], StripWs(srIn.phrase),
                                               me.page, me.limit)[me.i + 1])]
    ELSE [me EXCEPT !.pc = "raised", !.exc = Failure(me).type]

\* The result the call returns and caches.
ResultOf(me, d, meta) ==
    Tuple3(Highlighted(d.out, StripWs(srIn.phrase)),
           SearchPageUrl(BIBLIA_INFO_CODES[srIn.trans], StripWs(srIn.phrase), me.page), meta)

\* The call after the loop body ran on a decoded payload and left d.
Digested(me, d) ==
    IF d.exc # "" THEN [me EXCEPT !.pc = "raised", !.exc = d.exc]
    ELSE IF d.out # <<>>
    THEN [me EXCEPT !.pc = "returned", !.total_all = d.total_all, !.out = d.out,
                    !.range_start = JInt(MetaOf(me.page, me.limit, d).start),
                    !.range_end = JInt(MetaOf(me.page, me.limit, d).end),
                    !.estimated = (d.range_start = JNone \/ d.range_end = JNone),
                    !.ret = ResultOf(me, d, MetaOf(me.page, me.limit, d)),
                    !.cacheCalls = me.cacheCalls + 1]
    ELSE Onward([me EXCEPT !.total_all = d.total_all, !.range_start = d.range_start,
                           !.range_end = d.range_end, !.out = d.out])

\* The call after http_get_text handed back the pair r.
Answered(me, r) ==
    IF r.status = 200 /\ ~NoBody(r.body) /\ JsonLoads(r.body) # None
    THEN Digested([me EXCEPT !.records = SeqOf(r.body.val)],
                  Digest(r.body.val, me.total_all, me.range_start, me.range_end, me.out))
    ELSE Onward(me)

\* cache_set(ck, (out, search_page_url, meta)) when the call returned.
Stored(c, me) == IF me.pc = "returned" THEN cache_set(c, me.key, me.ret, now) ELSE c

\* http_get_text hands its pair back to the search: the rest of the loop
\* body, then the result, the next URL, or the RuntimeError after the loop.
SearchResume(r) ==
    /\ sr.pc = "http"
    /\ sr' = Answered([sr EXCEPT !.last_status = r.status,
                                  !.statuses = Append(sr.statuses, r.status)], r)
    /\ cache' = Stored(cache, sr')
    /\ UNCHANGED <<srIn, now, ticks, written, lastCall>>
    /\ UNCHANGED <<fetchVars, prog, parseVars, opsVars, batchVars, splitVars, restVars>>

SearchInit ==
    /\ fetchFn = "none"
    /\ fetchPc = "idle"
    /\ attempt = 0
    /\ gets = 0
    /\ sleeps = <<>>
    /\ seen = <<>>
    /\ fetchRet = NoRet
    /\ cache = EmptyCache
    /\ now = 0
    /\ ticks = 0
    /\ written = EmptyCache
    /\ lastCall = NoCall
    /\ prog = "bot.py"
    /\ parseIn = NoInput
    /\ parseOut = NotRun
    /\ procs = [p \in Procs |-> IdleProc]
    /\ served = EmptyCache
    /\ fhHits = 0
    /\ fhBad = {}
    /\ fhI = 0
    /\ fhSub = <<>>
    /\ fhPc = "idle"
    /\ fhBlocks = 0
    /\ splitIn = NoSplitIn
    /\ splitOut = NotSplit
    /\ srIn = NoSearchIn
    /\ sr = IdleSearch
    /\ hl = IdleHl
    /\ fa = IdleFetchAll
    /\ view = NoView

SearchNext ==
    \/ \E c \in SearchCalls : SearchStart(c)
    \/ \E r \in SearchReturns : SearchResume(r)

SpecSearch == SearchInit /\ [][SearchNext]_vars


(***************************************************************************)
(* highlight_hebrew and _highlight_case_insensitive                        *)
(*                                                                         *)
(* A str is the flat sequence of its characters.  Hebrew characters are    *)
(* named: "alef" and "bet" are letters, "qamats" is a point of the class   *)
(* _HE_DIA.  Indexes are those of Python (first character 0), a span       *)
(* (a, b) is the slice hay[a:b].  The "**" that highlight_hebrew inserts   *)
(* is the single value "**".                                               *)
(***************************************************************************)
HE_DIA == {"qamats"}
HE_LETTERS == {"alef", "bet"}

\* strip_hebrew_diacritics(s)
strip_hebrew_diacritics(s) == SelectSeq(s, LAMBDA ch : ch \notin HE_DIA)

\* _build_strip_map(hay): the characters kept and the index of each in hay.
RECURSIVE IdxMapFrom(_, _)
IdxMapFrom(hay, i) ==
    IF i >= Len(hay) THEN <<>>
    ELSE IF hay[i + 1] \in HE_DIA THEN IdxMapFrom(hay, i + 1)
    ELSE <<i>> \o IdxMapFrom(hay, i + 1)
build_strip_map(hay) == [Hs |-> strip_hebrew_diacritics(hay), map_idx |-> IdxMapFrom(hay, 0)]

\* s.find(lit, start) of a non-empty lit: the lowest index, or -1.
Find(s, lit, start) ==
    IF \E i \in start..(Len(s) - Len(lit)) : SubSeq(s, i + 1, i + Len(lit)) = lit
    THEN CHOOSE i \in start..(Len(s) - Len(lit)) :
            /\ SubSeq(s, i + 1, i + Len(lit)) = lit
            /\ \A k \in start..(i - 1) : SubSeq(s, k + 1, k + Len(lit)) # lit
    ELSE -1

\* orig_end = map_idx[j] + 1, dropped the + 1
OrigEnd_LastLetterLeftOut(map_idx, j) == map_idx[j + 1]

\* orig_end = map_idx[j] + 1
OrigEnd(map_idx, j) == map_idx[j + 1] + 1

\* The while loop of highlight_hebrew from `start` on: the spans it appends.
RECURSIVE MatchesFrom(_, _, _, _)
MatchesAt(Hs, Ns, map_idx, i) ==
    IF i = -1 THEN <<>>
    ELSE <<[a |-> map_idx[i + 1], b |-> OrigEnd(map_idx, i + Len(Ns) - 1)]>>
         \o MatchesFrom(Hs, Ns, map_idx, i + Len(Ns))
MatchesFrom(Hs, Ns, map_idx, start) == MatchesAt(Hs, Ns, map_idx, Find(Hs, Ns, start))

\* The for loop over the matches: what it appends to out, and hay[prev:].
RECURSIVE Emphasize(_, _, _)
Emphasize(hay, matches, prev) ==
    IF matches = <<>> THEN SubSeq(hay, prev + 1, Len(hay))
    ELSE IF Head(matches).a < prev THEN Emphasize(hay, Tail(matches), prev)
    ELSE SubSeq(hay, prev + 1, Head(matches).a) \o <<"**">>
         \o SubSeq(hay, Head(matches).a + 1, Head(matches).b) \o <<"**">>
         \o Emphasize(hay, Tail(matches), Head(matches).b)

\* highlight_hebrew(hay, needle): the matches found and the str returned.
HebrewMatches(hay, needle, sm) ==
    IF hay = <<>> \/ needle = <<>> \/ strip_hebrew_diacritics(needle) = <<>> THEN <<>>
    ELSE MatchesFrom(sm.Hs, strip_hebrew_diacritics(needle), sm.map_idx, 0)
highlight_hebrew(hay, matches) ==
    IF matches = <<>> THEN hay ELSE Emphasize(hay, matches, 0)

MaxHay == 5
MaxNeedle == 3
HE_CHARS == HE_LETTERS \cup HE_DIA
StrsUpTo(chars, n) == UNION {[1..k -> chars] : k \in 0..n}

\* The Latin haystacks and phrases given to _highlight_case_insensitive.
CI_HAYS ==
    {<<"P", "a", "n", "a">>, <<"p", "a", "n", " ", "P", "a", "n", "a">>, <<"o", "n">>, <<>>,
     <<"a", "b", "a">>, <<"P", "a", "n">>}
CI_NEEDLES ==
    {<<"P", "a", "n">>, <<"p", "a", "n", "a", " ", "P", "a", "n">>, <<"P", "a", "n", " ", "p", "a", "n">>,
     <<"a", " ", "p", "a", "n", "a">>, <<" ">>, <<>>, <<"a", "b", " ", "b", "a">>}

HlInit ==
    /\ fetchFn = "none"
    /\ fetchPc = "idle"
    /\ attempt = 0
    /\ gets = 0
    /\ sleeps = <<>>
    /\ seen = <<>>
    /\ fetchRet = NoRet
    /\ cache = EmptyCache
    /\ now = 0
    /\ ticks = 0
    /\ written = EmptyCache
    /\ lastCall = NoCall
    /\ prog = "bot.py"
    /\ parseIn = NoInput
    /\ parseOut = NotRun
    /\ procs = [p \in Procs |-> IdleProc]
    /\ served = EmptyCache
    /\ fhHits = 0
    /\ fhBad = {}
    /\ fhI = 0
    /\ fhSub = <<>>
    /\ fhPc = "idle"
    /\ fhBlocks = 0
    /\ splitIn = NoSplitIn
    /\ splitOut = NotSplit
    /\ srIn = NoSearchIn
    /\ sr = IdleSearch
    /\ hl \in {[IdleHl EXCEPT !.fn = "highlight_hebrew", !.hay = h, !.needle = n] :
                    h \in StrsUpTo(HE_CHARS, MaxHay), n \in StrsUpTo(HE_CHARS, MaxNeedle)}
              \cup {[IdleHl EXCEPT !.fn = "_highlight_case_insensitive", !.hay = h, !.needle = n] :
                    h \in CI_HAYS, n \in CI_NEEDLES}
    /\ fa = IdleFetchAll
    /\ view = NoView

HighlightHebrew ==
    /\ hl.fn = "highlight_hebrew"
    /\ ~hl.done
    /\ hl' = [hl EXCEPT !.done = TRUE,
                        !.matches = HebrewMatches(hl.hay, hl.needle, build_strip_map(hl.hay)),
                        !.out = highlight_hebrew(hl.hay,
                                    HebrewMatches(hl.hay, hl.needle, build_strip_map(hl.hay)))]
    /\ UNCHANGED <<fetchVars, cacheVars, prog, parseVars, opsVars, batchVars, splitVars, searchVars, fa, view>>

HighlightCaseInsensitive ==
    /\ hl.fn = "_highlight_case_insensitive"
    /\ ~hl.done
    /\ hl' = [hl EXCEPT !.done = TRUE, !.out = highlight_case_insensitive(hl.hay, hl.needle)]
    /\ UNCHANGED <<fetchVars, cacheVars, prog, parseVars, opsVars, batchVars, splitVars, searchVars, fa, view>>

HlNext ==
    \/ HighlightHebrew
    \/ HighlightCaseInsensitive

SpecHighlight == HlInit /\ [][HlNext]_vars


(***************************************************************************)
(* The fetch-all loops of find_hebrew (!fh) and fraza (!fp)                *)
(*                                                                         *)
(* A list of hits is its length.  find_hebrew awaits                       *)
(* api_bible_search_hebrew, which returns (hits, meta) or raises; fraza    *)
(* awaits biblia_info_search_phrase_api, which returns a non-empty list of *)
(* hits with its meta or raises.                                           *)
(***************************************************************************)
PER_PAGE_API == 10
MAX_ALL_FH == 1000
API_PAGE_SIZE == 25
MAX_ALL_FP == 600

\* all_hits[:MAX_ALL] taken whole
Trimmed_Whole(n, max) == n

\* all_hits[:MAX_ALL], hits_all[:MAX_ALL]
Trimmed(n, max) == Min(n, max)

\* if not hs or cur >= meta.get("pages", 1) or len(all_hits) >= MAX_ALL: break
FhLeaves(k, cur, pages, n) == k = 0 \/ cur >= pages \/ n >= MAX_ALL_FH

\* if (meta.get("end") and meta.get("total") and meta["end"] >= meta["total"])
\*    or len(hits_all) >= MAX_ALL or not fetch_all: break
FpLeaves(end, total, n, fetch_all) ==
    (end # 0 /\ total # 0 /\ end >= total) \/ n >= MAX_ALL_FP \/ ~fetch_all

\* After the loop: "Brak wyników." for no hit, otherwise one block per hit
\* kept and the view.
Presented(me, hits) ==
    IF hits = 0 THEN [me EXCEPT !.pc = "done", !.hits = 0, !.reply = "empty"]
    ELSE [me EXCEPT !.pc = "done", !.hits = hits, !.blocks = hits, !.reply = "view"]

\* except Exception as e: await ctx.reply(...); return
Refused(me) == [me EXCEPT !.pc = "done", !.reply = "error"]

\* The most hits one answer carries, and a number of pages no run reaches.
MaxAnswer == 400
ManyPages == 200

\* What api_bible_search_hebrew hands back: it raised, or k hits and the
\* number of pages of its meta (at least 1).
FhReturns ==
    {[raised |-> TRUE, k |-> 0, pages |-> 1]}
    \cup [raised : {FALSE}, k : {0, PER_PAGE_API, MaxAnswer}, pages : {1, 3, ManyPages}]

\* What biblia_info_search_phrase_api hands back: it raised, or k >= 1
\* hits and the end and total of its meta.
FpReturns ==
    {[raised |-> TRUE, k |-> 0, end |-> 0, total |-> 0]}
    \cup {[raised |-> FALSE, k |-> k, end |-> m[1], total |-> m[2]] :
            k \in {API_PAGE_SIZE, MaxAnswer},
            m \in {<<25, 100>>, <<100, 100>>, <<25, 0>>, <<0, 100>>}}

\* find_hebrew up to its first await: page 1 of the search.
FindHebrewStart(all) ==
    /\ fa.pc = "idle"
    /\ fa' = [IdleFetchAll EXCEPT !.cmd = "fh", !.fetch_all = all, !.pc = "await", !.cur = 1]
    /\ UNCHANGED <<fetchVars, cacheVars, prog, parseVars, opsVars, batchVars, splitVars, searchVars, hl, view>>

\* find_hebrew once the page is in (with fetch_all: the rest of the loop body).
FhGot(me, r) ==
    IF ~me.fetch_all THEN Presented(me, r.k)
    ELSE IF FhLeaves(r.k, me.cur, r.pages, me.n + r.k)
    THEN Presented([me EXCEPT !.n = me.n + r.k, !.pages = r.pages],
                   Trimmed(me.n + r.k, MAX_ALL_FH))
    ELSE [me EXCEPT !.n = me.n + r.k, !.pages = r.pages, !.cur = me.cur + 1]

\* api_bible_search_hebrew hands its result back to find_hebrew.
FindHebrewPage(r) ==
    /\ fa.pc = "await"
    /\ fa.cmd = "fh"
    /\ fa' = IF r.raised THEN Refused(fa) ELSE FhGot(fa, r)
    /\ UNCHANGED <<fetchVars, cacheVars, prog, parseVars, opsVars, batchVars, splitVars, searchVars, hl, view>>

\* fraza up to its first await: page 1 of the search.
FrazaStart(all) ==
    /\ fa.pc = "idle"
    /\ fa' = [IdleFetchAll EXCEPT !.cmd = "fp", !.fetch_all = all, !.pc = "await", !.cur = 1]
    /\ UNCHANGED <<fetchVars, cacheVars, prog, parseVars, opsVars, batchVars, splitVars, searchVars, hl, view>>

\* fraza once the page is in: the rest of the loop body.
FpGot(me, r) ==
    IF r.k = 0 THEN Presented(me, Trimmed(me.n, MAX_ALL_FP))
    ELSE IF FpLeaves(r.end, r.total, me.n + r.k, me.fetch_all)
    THEN Presented([me EXCEPT !.n = me.n + r.k, !.end = r.end, !.total = r.total],
                   Trimmed(me.n + r.k, MAX_ALL_FP))
    ELSE [me EXCEPT !.n = me.n + r.k, !.end = r.end, !.total = r.total, !.cur = me.cur + 1]

\* biblia_info_search_phrase_api hands its result back to fraza.
FrazaPage(r) ==
    /\ fa.pc = "await"
    /\ fa.cmd = "fp"
    /\ fa' = IF r.raised THEN Refused(fa) ELSE FpGot(fa, r)
    /\ UNCHANGED <<fetchVars, cacheVars, prog, parseVars, opsVars, batchVars, splitVars, searchVars, hl, view>>

FetchAllInit ==
    /\ fetchFn = "none"
    /\ fetchPc = "idle"
    /\ attempt = 0
    /\ gets = 0
    /\ sleeps = <<>>
    /\ seen = <<>>
    /\ fetchRet = NoRet
    /\ cache = EmptyCache
    /\ now = 0
    /\ ticks = 0
    /\ written = EmptyCache
    /\ lastCall = NoCall
    /\ prog = "bot.py"
    /\ parseIn = NoInput
    /\ parseOut = NotRun
    /\ procs = [p \in Procs |-> IdleProc]
    /\ served = EmptyCache
    /\ fhHits = 0
    /\ fhBad = {}
    /\ fhI = 0
    /\ fhSub = <<>>
    /\ fhPc = "idle"
    /\ fhBlocks = 0
    /\ splitIn = NoSplitIn
    /\ splitOut = NotSplit
    /\ srIn = NoSearchIn
    /\ sr = IdleSearch
    /\ hl = IdleHl
    /\ fa = IdleFetchAll
    /\ view = NoView

FetchAllNext ==
    \/ \E all \in BOOLEAN : FindHebrewStart(all)
    \/ \E r \in FhReturns : FindHebrewPage(r)
    \/ \E all \in BOOLEAN : FrazaStart(all)
    \/ \E r \in FpReturns : FrazaPage(r)

SpecFetchAll == FetchAllInit /\ [][FetchAllNext]_vars

\* Every page request completes: the awaited search returns or raises.
FairFetchAll ==
    /\ SpecFetchAll
    /\ WF_vars(\E r \in FhReturns : FindHebrewPage(r))
    /\ WF_vars(\E r \in FpReturns : FrazaPage(r))


(***************************************************************************)
(* FHResultsView                                                           *)
(*                                                                         *)
(* blocks is len(self.blocks).  Times are in tenths of a second;           *)
(* time.time() starts far above the cooldown.  A user without an entry in  *)
(* _last_click_per_user is outside the domain of last_click_per_user.      *)
(***************************************************************************)
COOLDOWN == 15
AUTHOR == "author"
ViewUsers == {AUTHOR, "guest"}
ViewEpoch == 1000
ViewTickStep == 5
MaxViewTicks == 4
MaxBlocks == 5

\* FHResultsView(ctx_author_id, blocks, title, footer, per_page, head_lines)
\* with FH_LOCKED_TO_AUTHOR read from the environment.
NewView(blocks, per_page, locked) ==
    [NoView EXCEPT !.blocks = blocks, !.per_page = Max(1, per_page),
                   !.locked_to_author = locked, !.time = ViewEpoch]

\* total_pages
total_pages(v) == Max(1, (v.blocks + v.per_page - 1) \div v.per_page)

\* self._last_click_per_user.get(user, 0.0)
LastClick(stamps, u) == IF u \in DOMAIN stamps THEN stamps[u] ELSE 0

\* Variant: the time of a press inside the cooldown is stored as well.
can_interact_StampsEveryPress(v, u) ==
    IF v.locked_to_author /\ u # AUTHOR THEN [ok |-> FALSE, view |-> v]
    ELSE [ok |-> ~(v.time - LastClick(v.last_click_per_user, u) < COOLDOWN),
          view |-> [v EXCEPT !.last_click_per_user =
                        [x \in DOMAIN v.last_click_per_user \cup {u} |->
                            IF x = u THEN v.time ELSE v.last_click_per_user[x]]]]

\* _can_interact(interaction): whether the press is let through, and the
\* view after it.
can_interact(v, u) ==
    IF v.locked_to_author /\ u # AUTHOR THEN [ok |-> FALSE, view |-> v]
    ELSE IF v.time - LastClick(v.last_click_per_user, u) < COOLDOWN
    THEN [ok |-> FALSE, view |-> v]
    ELSE [ok |-> TRUE,
          view |-> [v EXCEPT !.last_click_per_user =
                        [x \in DOMAIN v.last_click_per_user \cup {u} |->
                            IF x = u THEN v.time ELSE v.last_click_per_user[x]]]]

\* self.page += 1 whatever the page
NextPage_Unchecked(v) == v.page + 1

\* if self.page < self.total_pages - 1: self.page += 1
NextPage(v) == IF v.page < total_pages(v) - 1 THEN v.page + 1 ELSE v.page

\* if self.page > 0: self.page -= 1
PrevPage(v) == IF v.page > 0 THEN v.page - 1 ELSE v.page

\* A button handler: `if not await self._can_interact(interaction): return`,
\* then the page.  press records the press, its time and the page and the
\* stored times it met.
Clicked(v, u, btn, g, page) ==
    [(IF g.ok THEN [g.view EXCEPT !.page = page] ELSE g.view)
        EXCEPT !.press = [user |-> u, btn |-> btn, ok |-> g.ok, at |-> v.time, page |-> v.page,
                          stamps |-> v.last_click_per_user]]

first_btn(u) ==
    /\ view' = Clicked(view, u, "first", can_interact(view, u), 0)
    /\ UNCHANGED <<fetchVars, cacheVars, prog, parseVars, opsVars, batchVars, splitVars, searchVars, hl, fa>>

prev_btn(u) ==
    /\ view' = Clicked(view, u, "prev", can_interact(view, u), PrevPage(view))
    /\ UNCHANGED <<fetchVars, cacheVars, prog, parseVars, opsVars, batchVars, splitVars, searchVars, hl, fa>>

next_btn(u) ==
    /\ view' = Clicked(view, u, "next", can_interact(view, u), NextPage(view))
    /\ UNCHANGED <<fetchVars, cacheVars, prog, parseVars, opsVars, batchVars, splitVars, searchVars, hl, fa>>

last_btn(u) ==
    /\ view' = Clicked(view, u, "last", can_interact(view, u), total_pages(view) - 1)
    /\ UNCHANGED <<fetchVars, cacheVars, prog, parseVars, opsVars, batchVars, splitVars, searchVars, hl, fa>>

\* Time passes between two presses.
ViewTick ==
    /\ view.ticks < MaxViewTicks
    /\ view' = [view EXCEPT !.time = view.time + ViewTickStep, !.ticks = view.ticks + 1]
    /\ UNCHANGED <<fetchVars, cacheVars, prog, parseVars, opsVars, batchVars, splitVars, searchVars, hl, fa>>

ViewInit ==
    /\ fetchFn = "none"
    /\ fetchPc = "idle"
    /\ attempt = 0
    /\ gets = 0
    /\ sleeps = <<>>
    /\ seen = <<>>
    /\ fetchRet = NoRet
    /\ cache = EmptyCache
    /\ now = 0
    /\ ticks = 0
    /\ written = EmptyCache
    /\ lastCall = NoCall
    /\ prog = "bot.py"
    /\ parseIn = NoInput
    /\ parseOut = NotRun
    /\ procs = [p \in Procs |-> IdleProc]
    /\ served = EmptyCache
    /\ fhHits = 0
    /\ fhBad = {}
    /\ fhI = 0
    /\ fhSub = <<>>
    /\ fhPc = "idle"
    /\ fhBlocks = 0
    /\ splitIn = NoSplitIn
    /\ splitOut = NotSplit
    /\ srIn = NoSearchIn
    /\ sr = IdleSearch
    /\ hl = IdleHl
    /\ fa = IdleFetchAll
    /\ view \in {NewView(b, pp, l) : b \in 0..MaxBlocks, pp \in {-1, 0, 2, 3}, l \in BOOLEAN}

ViewNext ==
    \/ \E u \in ViewUsers : first_btn(u)
    \/ \E u \in ViewUsers : prev_btn(u)
    \/ \E u \in ViewUsers : next_btn(u)
    \/ \E u \in ViewUsers : last_btn(u)
    \/ ViewTick

SpecView == ViewInit /\ [][ViewNext]_vars


(***************************************************************************)
(* build_block: the Polish reference of a hit and its two passage lookups  *)
(*                                                                         *)
(* A verse id is the flat sequence of its characters, as is a reference.   *)
(***************************************************************************)
USFM_TO_PL ==
    {<<<<"G", "E", "N">>, <<"R", "d", "z">>>>, <<<<"E", "X", "O">>, <<"W", "j">>>>, <<<<"L", "E", "V">>, <<"K", "p", "l/">>>>,
     <<<<"N", "U", "M">>, <<"L", "b">>>>, <<<<"D", "E", "U">>, <<"P", "w", "t">>>>, <<<<"J", "O", "S">>, <<"J", "o", "z">>>>,
     <<<<"J", "D", "G">>, <<"S", "d", "z">>>>, <<<<"R", "U", "T">>, <<"R", "u", "t">>>>, <<<<"1", "S", "A">>, <<"1", "S", "m">>>>,
     <<<<"2", "S", "A">>, <<"2", "S", "m">>>>, <<<<"1", "K", "I">>, <<"1", "K", "r", "l">>>>, <<<<"2", "K", "I">>, <<"2", "K", "r", "l">>>>,
     <<<<"1", "C", "H">>, <<"1", "K", "r", "n">>>>, <<<<"2", "C", "H">>, <<"2", "K", "r", "n">>>>, <<<<"E", "Z", "R">>, <<"E", "z", "d">>>>,
     <<<<"N", "E", "H">>, <<"N", "e", "h">>>>, <<<<"E", "S", "T">>, <<"E", "s", "t">>>>, <<<<"J", "O", "B">>, <<"H", "i">>>>,
     <<<<"P", "S", "A">>, <<"P", "s">>>>, <<<<"P", "R", "O">>, <<"P", "r", "z">>>>, <<<<"E", "C", "C">>, <<"K", "o", "h">>>>,
     <<<<"S", "N", "G">>, <<"P", "n", "p">>>>, <<<<"I", "S", "A">>, <<"I", "z">>>>, <<<<"J", "E", "R">>, <<"J", "e", "r">>>>,
     <<<<"L", "A", "M">>, <<"L", "m">>>>, <<<<"E", "Z", "K">>, <<"E", "z">>>>, <<<<"D", "A", "N">>, <<"D", "n">>>>,
     <<<<"H", "O", "S">>, <<"O", "z">>>>, <<<<"J", "O", "L">>, <<"J", "l">>>>, <<<<"A", "M", "O">>, <<"A", "m">>>>,
     <<<<"O", "B", "A">>, <<"A", "b">>>>, <<<<"J", "O", "N">>, <<"J", "o", "n">>>>, <<<<"M", "I", "C">>, <<"M", "i">>>>,
     <<<<"N", "A", "M">>, <<"N", "a">>>>, <<<<"H", "A", "B">>, <<"H", "a">>>>, <<<<"Z", "E", "P">>, <<"S", "o">>>>,
     <<<<"H", "A", "G">>, <<"A", "g">>>>, <<<<"Z", "E", "C">>, <<"Z", "a">>>>, <<<<"M", "A", "L">>, <<"M", "l">>>>}

\* s.split(sep): the pieces of s between the occurrences of the character.
RECURSIVE SplitOn(_, _)
FirstAt(s, sep) == CHOOSE i \in 1..Len(s) : s[i] = sep /\ \A k \in 1..(i - 1) : s[k] # sep
SplitAt(s, sep, i) == <<SubSeq(s, 1, i - 1)>> \o SplitOn(SubSeq(s, i + 1, Len(s)), sep)
SplitOn(s, sep) ==
    IF \A i \in 1..Len(s) : s[i] # sep THEN <<s>> ELSE SplitAt(s, sep, FirstAt(s, sep))

\* _parse_verse_id(verse_id): (book, chapter, verse), or three None.
VerseIdParts(parts) ==
    IF Len(parts) >= 3 THEN [ok |-> TRUE, book |-> parts[1], ch |-> parts[2], vs |-> parts[3]]
    ELSE [ok |-> FALSE, book |-> <<>>, ch |-> <<>>, vs |-> <<>>]
parse_verse_id(verse_id) == VerseIdParts(SplitOn(SplitOn(verse_id, "-")[1], "."))

\* _pl_ref_from_usfm(verse_id): the reference (its two results are equal),
\* "" when a part is missing or empty.
PlRef(v) ==
    IF ~v.ok \/ v.book = <<>> \/ v.ch = <<>> \/ v.vs = <<>> THEN <<>>
    ELSE DictGet(USFM_TO_PL, v.book, v.book) \o <<" ">> \o v.ch \o <<":">> \o v.vs
pl_ref_from_usfm(verse_id) == PlRef(parse_verse_id(verse_id))

\* The ids of the hits: every book of USFM_TO_PL with chapters and verses
\* of one and two digits, the id of a range, a book outside the table, and
\* an id without a verse.
BlockChapters == {<<"1">>, <<"1", "2">>}
BlockVerses == {<<"3">>, <<"2", "0">>}
BlockVerseIds ==
    {kv[1] \o <<".">> \o c \o <<".">> \o v : kv \in USFM_TO_PL, c \in BlockChapters, v \in BlockVerses}
    \cup {<<"G", "E", "N", ".", "1", ".", "1", "-", "G", "E", "N", ".", "1", ".", "3">>,
          <<"M", "A", "T", ".", "1", ".", "1">>, <<"G", "E", "N", ".", "1">>}

\* ref_pl, header_pl = _pl_ref_from_usfm(verse_id), for each of the ids.
BlockRefs == [id \in BlockVerseIds |-> pl_ref_from_usfm(id)]

\* build_block(v): `if ref_pl:`, then biblia_info_get_passage("bt",
\* ref_pl) up to its first await and, once that lookup has returned or
\* raised, biblia_info_get_passage("bw", ref_pl) up to its first await.
BlockLookup(p, trans, ref_pl) ==
    /\ ref_pl # <<>>
    /\ p = 2 => (procs[1].pc \in {"returned", "raised"} /\ procs[1].ref = ref_pl)
    /\ PassageStart(p, trans, ref_pl)

BlockInit ==
    /\ fetchFn = "none"
    /\ fetchPc = "idle"
    /\ attempt = 0
    /\ gets = 0
    /\ sleeps = <<>>
    /\ seen = <<>>
    /\ fetchRet = NoRet
    /\ cache = EmptyCache
    /\ now = 0
    /\ ticks = 0
    /\ written = EmptyCache
    /\ lastCall = NoCall
    /\ prog = "bot.py"
    /\ parseIn = NoInput
    /\ parseOut = NotRun
    /\ procs = [p \in Procs |-> IdleProc]
    /\ served = EmptyCache
    /\ fhHits = 0
    /\ fhBad = {}
    /\ fhI = 0
    /\ fhSub = <<>>
    /\ fhPc = "idle"
    /\ fhBlocks = 0
    /\ splitIn = NoSplitIn
    /\ splitOut = NotSplit
    /\ srIn = NoSearchIn
    /\ sr = IdleSearch
    /\ hl = IdleHl
    /\ fa = IdleFetchAll
    /\ view = NoView

BlockNext ==
    \/ \E id \in BlockVerseIds, c \in {<<1, "bt">>, <<2, "bw">>} : BlockLookup(c[1], c[2], BlockRefs[id])
    \/ \E p \in Procs, r \in PassageReturns : PassageResume(p, r)

SpecBlock == BlockInit /\ [][BlockNext]_vars

(***************************************************************************)
(* Properties of the fetch client                                          *)
(***************************************************************************)
\* The retryable statuses as the specification lists them.
SpecRetryable(fn) ==
    IF fn = "http_get_text" THEN {403, 503} ELSE {429, 500, 502, 503, 504}

IsResponse(o) == ~o.exc

\* The first n attempts all met a retryable status.
FirstRetryable(n) ==
    /\ Len(seen) >= n
    /\ \A i \in 1..n : IsResponse(seen[i]) /\ seen[i].status \in SpecRetryable(fetchFn)

\* C1: three consecutive retryable statuses make exactly 3 GET attempts,
\* after which the call returns a (status, body) pair and raises nothing.
C1_ThreeRetryableThreeAttempts ==
    FirstRetryable(3) =>
        /\ gets = 3
        /\ Len(seen) = 3
        /\ fetchPc = "get" => attempt = 3
        /\ fetchPc = "done" => (fetchRet # NoRet /\ ~fetchRet.raised)

C1_Witness ==
    /\ FirstRetryable(3)
    /\ fetchPc = "done"
    /\ fetchFn = "http_get_json"

\* Attempt k met a status that is neither 200 nor retryable.
PermanentAt(k) ==
    /\ k \in 1..Len(seen)
    /\ IsResponse(seen[k])
    /\ seen[k].status # 200
    /\ seen[k].status \notin SpecRetryable(fetchFn)

\* C2: a non-200 status outside the retryable set ends the call at once:
\* that status is returned, attempt k is the last GET and no sleep follows.
C2_PermanentReturnsAtOnce ==
    \A k \in 1..MAX_ATTEMPTS :
        PermanentAt(k) =>
            /\ gets = k
            /\ Len(seen) = k
            /\ Len(sleeps) = k - 1
            /\ fetchPc = "done"
            /\ fetchRet.status = seen[k].status
            /\ ~fetchRet.raised

C2_Witness ==
    /\ PermanentAt(2)
    /\ seen[2].status = 404
    /\ fetchPc = "done"
    /\ gets = 2

\* Attempt i (not the last one) was answered by a status of S and the call
\* backed off and went on instead of returning.
BacksOffOn(S) ==
    \A i \in 1..(MAX_ATTEMPTS - 1) :
        (i <= Len(seen) /\ IsResponse(seen[i]) /\ seen[i].status \in S) =>
            /\ Len(sleeps) >= i
            /\ fetchPc = "done" => gets > i

\* C3 as stated: both variants retry 403 and 503, the JSON variant also
\* 429, 500, 502 and 504.
C3_Original_403RetriedByBoth ==
    /\ BacksOffOn({403, 503})
    /\ fetchFn = "http_get_json" => BacksOffOn({429, 500, 502, 504})

\* C3 amended: 503 is retried by both variants, 403 by the text variant
\* only; the JSON variant retries 429, 500, 502, 503, 504 and returns a 403
\* at once as (403, None).
C3_RetryableSets ==
    /\ BacksOffOn({503})
    /\ fetchFn = "http_get_text" => BacksOffOn({403})
    /\ fetchFn = "http_get_json" =>
        /\ BacksOffOn({429, 500, 502, 504})
        /\ \A i \in 1..Len(seen) :
            (IsResponse(seen[i]) /\ seen[i].status = 403) =>
                /\ fetchPc = "done"
                /\ gets = i
                /\ fetchRet = Pair(403, None)

C3_Witness ==
    /\ fetchFn = "http_get_json"
    /\ Len(seen) = 2
    /\ IsResponse(seen[1]) /\ seen[1].status = 503
    /\ IsResponse(seen[2]) /\ seen[2].status = 403
    /\ fetchPc = "done"

\* The pair a call may return for the response o it observed last.
ObservedPair(o) ==
    IF fetchFn = "http_get_text" THEN {Pair(o.status, o.body)}
    ELSE {Pair(o.status, [kind |-> "parsed", val |-> o.body.val]), Pair(o.status, None)}

Placeholder == IF fetchFn = "http_get_text" THEN Pair(403, BLOCKED) ELSE Pair(503, None)

\* C4: whatever the attempts meet, a call makes at most 3 GETs, answers an
\* exception with a backoff and the next attempt, never raises, and returns
\* either what the last response carried or the placeholder.
C4_BoundedNeverRaises ==
    /\ gets <= 3
    /\ Len(seen) = gets
    /\ ~fetchRet.raised
    /\ \A i \in 1..Len(seen) :
        seen[i].exc =>
            /\ Len(sleeps) >= i
            /\ (fetchPc = "done" /\ i < 3) => gets > i
    /\ fetchPc = "done" =>
        \/ fetchRet = Placeholder
        \/ /\ seen # <<>>
           /\ IsResponse(seen[Len(seen)])
           /\ fetchRet \in ObservedPair(seen[Len(seen)])

C4_Witness ==
    /\ fetchPc = "done"
    /\ Len(seen) = 3
    /\ seen[1].exc
    /\ IsResponse(seen[2]) /\ seen[2].status = 503
    /\ IsResponse(seen[3]) /\ seen[3].status = 200

\* C5: the n-th sleep of a call lasts n times the base delay (0.7 s for
\* text, 0.6 s for JSON), so the delays are in ratio 1:2:3 and increase.
C5_LinearBackoff ==
    \A n \in 1..Len(sleeps) :
        /\ fetchFn = "http_get_text" => sleeps[n] = n * 7
        /\ fetchFn = "http_get_json" => sleeps[n] = n * 6
        /\ sleeps[n] = n * sleeps[1]
        /\ n > 1 => sleeps[n] > sleeps[n - 1]
        /\ Len(seen) >= n

C5_Witness ==
    /\ Len(sleeps) = 3
    /\ fetchFn = "http_get_text"
    /\ sleeps = <<7, 14, 21>>

(***************************************************************************)
(* Properties of the TTL cache                                             *)
(***************************************************************************)
\* C6: cache_get(k) run no more than CACHE_TTL seconds after the latest
\* cache_set(k, v) returns v and leaves the entry in place.
C6_ReadYourWrite ==
    (/\ lastCall.fn = "cache_get"
     /\ lastCall.k \in DOMAIN written
     /\ lastCall.at - written[lastCall.k].t <= 300) =>
        /\ lastCall.ret = written[lastCall.k].d
        /\ lastCall.k \in DOMAIN cache
        /\ cache[lastCall.k] = written[lastCall.k]

C6_Witness ==
    /\ lastCall.fn = "cache_get"
    /\ lastCall.k \in DOMAIN written
    /\ lastCall.at - written[lastCall.k].t = 300
    /\ lastCall.ret = Str(<<<<>>>>)

\* The entry under key j is the same before and after a step.
SameEntry(j) ==
    /\ j \in DOMAIN cache <=> j \in DOMAIN cache'
    /\ j \in DOMAIN cache => cache'[j] = cache[j]

\* C7: expiry is lazy and local.  A cache_get of an entry older than
\* CACHE_TTL returns None and removes that entry; a call touches no other
\* key; the passing of time alone removes nothing.
C7_Step ==
    /\ now' # now => cache' = cache
    /\ lastCall' # lastCall =>
        /\ \A j \in CacheKeys : j # lastCall'.k => SameEntry(j)
        /\ (/\ lastCall'.fn = "cache_get"
            /\ lastCall'.k \in DOMAIN cache
            /\ now - cache[lastCall'.k].t > 300) =>
                /\ lastCall'.ret = None
                /\ lastCall'.k \notin DOMAIN cache'

C7_LazyLocalExpiry == [][C7_Step]_vars

C7_Witness ==
    /\ lastCall.fn = "cache_get"
    /\ lastCall.k \in DOMAIN written
    /\ lastCall.k \notin DOMAIN cache
    /\ lastCall.ret = None
    /\ \E j \in DOMAIN cache : now - cache[j].t > 300

(***************************************************************************)
(* Properties of the citation parser                                       *)
(***************************************************************************)
\* C10: for every key a of BOOK_ALIASES with slug b and every letter-case
\* variant of a, parse_ref(a + " 1:1") of bot2.py returns (b, "1", "1").
C10_EveryAliasResolves ==
    (/\ prog = "bot2.py"
     /\ parseIn.kind = "alias"
     /\ parseOut # NotRun) =>
        parseOut = [ok |-> TRUE,
                    book |-> DictGet(BOOK_ALIASES, parseIn.alias, <<>>),
                    ch |-> <<"1">>,
                    vs |-> <<"1">>]

\* The verse group "x-y" of a citation: where its dash stands, 0 without one.
DashAt(vs) == IF \E i \in 1..Len(vs) : vs[i] = "-" THEN CHOOSE i \in 1..Len(vs) : vs[i] = "-" ELSE 0
RangeStart(vs) == NumberOf(SubSeq(vs, 1, DashAt(vs) - 1))
RangeEnd(vs) == NumberOf(SubSeq(vs, DashAt(vs) + 1, Len(vs)))

\* C11: every citation parse_ref produces that carries a verse range "x-y"
\* has y >= x; a reference whose range end is below its start is not
\* resolved into a citation.
C11_RangeEndNotBelowStart ==
    (parseOut.ok /\ DashAt(parseOut.vs) > 0) =>
        RangeEnd(parseOut.vs) >= RangeStart(parseOut.vs)

(***************************************************************************)
(* Properties of the cached operations                                     *)
(***************************************************************************)
\* C8: once a cached operation has fetched and returned a value for a
\* request, the same request made within CACHE_TTL seconds returns that
\* value and issues no HTTP request, whatever the value (the empty text
\* included).
C8_RepeatServedFromCache ==
    \A p \in Procs :
        (/\ procs[p].pc \in {"returned", "raised", "http"}
         /\ procs[p].prior.has
         /\ procs[p].start - procs[p].prior.at <= 300) =>
            /\ procs[p].pc = "returned"
            /\ procs[p].ret = procs[p].prior.value
            /\ procs[p].reqs = <<>>

\* Two passage requests differ at most in the letter case of the reference
\* and in the white space around it.
SameQuery(a, b) ==
    /\ a.fn = "biblia_info_get_passage"
    /\ b.fn = "biblia_info_get_passage"
    /\ a.trans = b.trans
    /\ StrLower(Strip(a.ref)) = StrLower(Strip(b.ref))

\* C9: two requests that differ only in letter case or surrounding white
\* space of their query parameters use the same cache key.
C9_SameKeyUpToCase ==
    \A p, q \in Procs :
        (/\ SameQuery(procs[p], procs[q])
         /\ procs[p].key # <<>>
         /\ procs[q].key # <<>>) =>
            procs[p].key = procs[q].key

\* A call whose arguments the validation has to refuse: a translation code
\* outside BIBLIA_INFO_CODES, or a reference outside the citation grammar.
InvalidPassageCall(pr) ==
    /\ pr.fn = "biblia_info_get_passage"
    /\ pr.pc # "idle"
    /\ (pr.trans \notin DOMAIN BIBLIA_INFO_CODES \/ pr.ref \in MalformedRefs)

\* C12: validation fails fast: biblia_info_get_passage called with an
\* unknown translation code or with a reference that does not match the
\* citation grammar (missing colon, non-numeric verse, empty book token)
\* raises ValueError before any cache read or write and before any HTTP
\* attempt.
C12_ValidationFailsFast ==
    \A p \in Procs :
        InvalidPassageCall(procs[p]) =>
            /\ procs[p].pc = "raised"
            /\ procs[p].exc = "ValueError"
            /\ procs[p].cacheCalls = 0
            /\ procs[p].reqs = <<>>

\* The answer a passage lookup holds in its locals is a success: status 200
\* with a non-empty extracted text.
CandidateSucceeded(pr) ==
    /\ pr.status = 200
    /\ pr.body.kind = "html"
    /\ biblia_html_to_text(pr.body.val) # EmptyStr

\* The requests made so far are those of the first candidates, in list
\* order; bot2.py lists the canonical slug first.
C13_InOrder ==
    \A p \in Procs :
        procs[p].fn = "biblia_info_get_passage" =>
            /\ Len(procs[p].reqs) <= Len(procs[p].slugs)
            /\ \A k \in 1..Len(procs[p].reqs) :
                   procs[p].reqs[k] =
                       PassageUrl(procs[p].trans, procs[p].slugs[k], procs[p].parsed)
            /\ (prog = "bot2.py" /\ procs[p].slugs # <<>>) =>
                   procs[p].slugs[1] = procs[p].parsed.book

\* What a lookup does with the answer to its latest request.
C13_Step ==
    \A p \in Procs :
        (/\ procs[p].fn = "biblia_info_get_passage"
         /\ procs[p].pc = "http"
         /\ procs'[p] # procs[p]) =>
            LET a == procs[p]
                b == procs'[p]
            IN  IF CandidateSucceeded(b)
                THEN b.pc = "returned" /\ b.reqs = a.reqs
                ELSE IF Len(a.reqs) < Len(a.slugs)
                THEN /\ b.pc = "http"
                     /\ b.reqs = Append(a.reqs,
                            PassageUrl(a.trans, a.slugs[Len(a.reqs) + 1], a.parsed))
                ELSE /\ b.pc = "raised"
                     /\ b.exc = "RuntimeError"
                     /\ b.last_status = b.status
                     /\ b.reqs = a.reqs

\* C13: biblia_info_get_passage requests the slug candidates strictly in
\* list order, moves on to the next candidate after any non-success (a 404,
\* another failure status, a 200 with empty extracted text), requests no
\* later candidate once one returned 200 with non-empty text, and raises,
\* carrying the last status, only when all candidates failed.
C13_CandidatesInOrder == [](C13_InOrder) /\ [][C13_Step]_vars

\* A lookup that moved past a failed candidate, succeeded on the second and
\* left the third unrequested.
C13_Witness ==
    \E p \in Procs :
        /\ procs[p].fn = "biblia_info_get_passage"
        /\ procs[p].pc = "returned"
        /\ Len(procs[p].reqs) = 2
        /\ Len(procs[p].slugs) = 3

\* Two lookups of the same request that both missed the cache and both went
\* to the network.
BothFetched(p, q) ==
    /\ p # q
    /\ procs[p].fn = "biblia_info_get_passage"
    /\ Request(procs[p]) = Request(procs[q])
    /\ procs[p].reqs # <<>>
    /\ procs[q].reqs # <<>>

\* Once both are done, the key has its entry, and it holds the text of one
\* of the two.
C14_EntryOfOne ==
    \A p, q \in Procs :
        (/\ BothFetched(p, q)
         /\ procs[p].pc = "returned"
         /\ procs[q].pc = "returned") =>
            /\ procs[p].key \in DOMAIN cache
            /\ cache[procs[p].key].d \in {procs[p].ret, procs[q].ret}

\* A lookup that finishes its fetch returns the text of its own answer and
\* leaves it as the entry of the key, whatever another lookup wrote there.
C14_Step ==
    \A p, q \in Procs :
        (/\ BothFetched(p, q)
         /\ procs[p].pc = "http"
         /\ procs'[p].pc = "returned") =>
            /\ procs'[p].ret = Str(PassageText(prog, procs'[p]).text)
            /\ DOMAIN cache' = DOMAIN cache \cup {procs[p].key}
            /\ cache'[procs[p].key] = [t |-> now, d |-> procs'[p].ret]
            /\ \A k \in DOMAIN cache \ {procs[p].key} : cache'[k] = cache[k]

\* C14: two concurrent biblia_info_get_passage calls for the same uncached
\* key can both miss and both fetch; in every such interleaving both return
\* their text, and the cache then holds one entry for the key, the one
\* written by the call that finished last.
C14_BenignRace == [](C14_EntryOfOne) /\ [][C14_Step]_vars

\* Both calls started before either had fetched, both fetched and returned
\* different texts, and the entry is the text of the second.
C14_Witness ==
    /\ BothFetched(1, 2)
    /\ ~procs[1].prior.has
    /\ ~procs[2].prior.has
    /\ procs[1].pc = "returned"
    /\ procs[2].pc = "returned"
    /\ procs[1].ret # procs[2].ret
    /\ cache[procs[2].key].d = procs[2].ret

(***************************************************************************)
(* Properties of find_hebrew                                               *)
(***************************************************************************)
\* The batch a hit belongs to: hits 1..10 are batch 0, 11..20 batch 1, ...
BatchOf(j) == (j - 1) \div 10

InFlight == {j \in 1..fhHits : fhSub[j] = "running"}

\* C15: in find_hebrew the blocks are built in batches of 10: never more
\* than 10 build_block sub-operations are in flight, and no sub-operation
\* of batch k+1 starts before every sub-operation of batch k has finished.
C15_BatchesOfTen ==
    /\ Cardinality(InFlight) <= 10
    /\ \A j, k \in 1..fhHits :
          (BatchOf(k) = BatchOf(j) + 1 /\ fhSub[k] # "pending") =>
              fhSub[j] \in {"done", "failed"}

\* The third batch is in flight: ten hits of the first two are done.
C15_Witness ==
    /\ fhHits > 20
    /\ fhSub[21] = "running"
    /\ fhBlocks = 20

(***************************************************************************)
(* Properties of _split_for_embeds                                         *)
(***************************************************************************)
\* The lines of a description: its pieces between the "\n\n" separators.
RECURSIVE Pieces(_)
Pieces(desc) ==
    LET seps == {i \in 1..(Len(desc) - 1) : desc[i] = "\n" /\ desc[i + 1] = "\n"} IN
    IF seps = {} THEN <<desc>>
    ELSE LET i == CHOOSE x \in seps : \A y \in seps : x <= y
         IN <<SubSeq(desc, 1, i - 1)>> \o Pieces(SubSeq(desc, i + 2, Len(desc)))

\* The lines of all chunks, in chunk order.
RECURSIVE ChunkLines(_)
ChunkLines(chunks) ==
    IF chunks = <<>> THEN <<>>
    ELSE Pieces(Head(chunks).description) \o ChunkLines(Tail(chunks))

TrimmedLines(lines) == [i \in 1..Len(lines) |-> Strip(lines[i])]

NonBlank(ls) == SelectSeq(ls, LAMBDA l : l # <<>>)

\* C16: every returned chunk's description has length <= limit, unless the
\* chunk consists of exactly one input line that is by itself longer than
\* limit; every line of a chunk is a whole trimmed input line, none is split
\* across chunks or truncated.
C16_ChunkWithinLimit ==
    splitOut.done =>
        \A c \in 1..Len(splitOut.chunks) :
            LET desc == splitOut.chunks[c].description
                trimmed == TrimmedLines(splitIn.lines)
            IN  /\ \/ Len(desc) <= splitIn.limit
                   \/ /\ Len(Pieces(desc)) = 1
                      /\ \E i \in 1..Len(trimmed) : trimmed[i] = desc
                /\ \A k \in 1..Len(Pieces(desc)) :
                       \E i \in 1..Len(trimmed) : trimmed[i] = Pieces(desc)[k]

\* A line longer than the limit stands alone in its chunk, between two
\* other chunks.
C16_Witness ==
    /\ splitOut.done
    /\ Len(splitOut.chunks) = 3
    /\ Len(splitOut.chunks[2].description) > splitIn.limit
    /\ Len(splitOut.chunks[1].description) > 0

Hits == sr.ret.val.hits
Meta == sr.ret.val.meta

\* A call with an unknown translation or a blank phrase raises ValueError
\* before it reads the cache or sends a request.
SearchValidationFailsFast ==
    (sr.pc # "idle" /\ (srIn.trans \notin DOMAIN BIBLIA_INFO_CODES \/ StripWs(srIn.phrase) = <<>>))
        => sr.pc = "raised" /\ sr.exc = "ValueError" /\ sr.cacheCalls = 0 /\ sr.reqs = <<>>

\* C18: whenever the search estimates the range itself (no payload carried
\* a range it could parse), the meta it returns has
\* end - start + 1 = number of hits returned and start = (page - 1) * limit + 1,
\* whatever the page, the limit, the number of hits and the reported total.
C18_EstimatedRangeCoversHits ==
    (sr.pc = "returned" /\ sr.estimated) =>
        /\ Meta.end - Meta.start + 1 = Len(Hits)
        /\ Meta.start = (Meta.page - 1) * Meta.limit + 1

\* At least 5 characters after trimming and at least one Latin or Polish
\* letter.
ValidText(s) ==
    /\ Len(StripWs(s)) >= 5
    /\ \E i \in 1..Len(s) : \E k \in 1..Len(LOWER) : s[i] = LOWER[k] \/ s[i] = UPPER[k]

\* C19: every hit the search returns has a reference built from a
\* non-empty book display name, a non-empty chapter and a non-empty verse,
\* and a text of at least 5 characters after trimming with at least one
\* letter; the records that lack one of these are not among the hits.
C19_HitsAreComplete ==
    sr.pc = "returned" =>
        /\ \A i \in 1..Len(Hits) :
            /\ Hits[i].book # <<>>
            /\ Hits[i].chapter # <<>>
            /\ Hits[i].verse # <<>>
            /\ Hits[i].ref = Hits[i].book \o <<" ">> \o Hits[i].chapter \o <<":">> \o Hits[i].verse
            /\ ValidText(Hits[i].snippet)
        /\ Len(Hits) <= Len(sr.records)

\* A call returned the hits of a payload one record of which was dropped.
C19_Witness ==
    /\ sr.pc = "returned"
    /\ sr.calls = 1
    /\ Len(Hits) > 0
    /\ Len(Hits) < Len(sr.records)
    /\ \A i \in 1..Len(sr.records) : sr.records[i].jt = "dict"

\* C20: whatever the types of the fields of a decodable payload, the search
\* raises no shape-related exception: it returns hits or, once both URLs
\* are exhausted, raises the no-results RuntimeError.
C20_NoShapeException ==
    (sr.pc = "raised" /\ sr.exc # "ValueError") =>
        sr.exc = "RuntimeError" /\ Len(sr.reqs) = 2

\* The call raised the error that follows its loop.
Exhausted == sr.pc = "raised" /\ Len(sr.statuses) = 2 /\ sr.exc = Failure(sr).type

\* The error a call raises when its two URLs ended with the statuses given.
FailureAfter(statuses) ==
    Failure([sr EXCEPT !.statuses = statuses, !.last_status = statuses[Len(statuses)]])

\* The RuntimeError raised after the loop carries the status of the last
\* answer, which is 200 when every URL answered 200 and another status when
\* every URL failed.
SearchErrorCarriesStatus ==
    Exhausted =>
        /\ Failure(sr).status = sr.statuses[2]
        /\ CauseOf(sr.statuses) = "no_results" => Failure(sr).status = 200
        /\ CauseOf(sr.statuses) = "transport" => Failure(sr).status # 200

\* C21: a search whose URLs all answered 200 without a valid hit signals a
\* no-results condition of its own: the error it raises is of another kind
\* than the error raised when every URL ended with a status other than 200
\* (404, or the 403 of the "<blocked>" pair), and it carries the last
\* status, 200.
C21_NoResultsToldApart ==
    (Exhausted /\ CauseOf(sr.statuses) = "no_results") =>
        /\ Failure(sr).status = 200
        /\ \A st \in {<<404, 404>>, <<403, 403>>, <<403, 404>>} :
              Failure(sr).type # FailureAfter(st).type

(***************************************************************************)
(* Properties of the highlighters                                          *)
(***************************************************************************)
\* The indexes of the "**" in what highlight_hebrew returned, and the spans
\* between the 1st and 2nd, the 3rd and 4th, ... of them.
Markers(out) == SelectSeq([i \in 1..Len(out) |-> i], LAMBDA i : out[i] = "**")
Spans(out) ==
    [k \in 1..(Len(Markers(out)) \div 2) |->
        SubSeq(out, Markers(out)[2 * k - 1] + 1, Markers(out)[2 * k] - 1)]

\* C22: the matches of highlight_hebrew are found left to right and do not
\* overlap (each starts at or after the end of the one before), each is
\* wrapped in one pair of "**", and every wrapped span with its points
\* removed equals the needle with its points removed; the text around the
\* markers is hay unchanged.
C22_HebrewSpansEqualNeedle ==
    (hl.done /\ hl.fn = "highlight_hebrew") =>
        /\ \A k \in 1..(Len(hl.matches) - 1) : hl.matches[k + 1].a >= hl.matches[k].b
        /\ Len(Markers(hl.out)) = 2 * Len(hl.matches)
        /\ \A k \in 1..Len(Spans(hl.out)) :
              /\ strip_hebrew_diacritics(Spans(hl.out)[k]) = strip_hebrew_diacritics(hl.needle)
              /\ Spans(hl.out)[k] = SubSeq(hl.hay, hl.matches[k].a + 1, hl.matches[k].b)
        /\ SelectSeq(hl.out, LAMBDA ch : ch # "**") = hl.hay

\* A pointed haystack held two matches of a pointed needle of two letters.
C22_Witness ==
    /\ hl.done
    /\ hl.fn = "highlight_hebrew"
    /\ Len(hl.matches) = 2
    /\ Len(strip_hebrew_diacritics(hl.needle)) = 2
    /\ \E i \in 1..Len(hl.needle) : hl.needle[i] \in HE_DIA
    /\ \E k \in 1..2 : \E i \in 1..Len(Spans(hl.out)[k]) : Spans(hl.out)[k][i] \in HE_DIA

(***************************************************************************)
(* Properties of the cache under failing operations                        *)
(***************************************************************************)
\* Another coroutine looked the same key up, fetched it and cached it.
WrittenByOther(p) ==
    \E q \in Procs \ {p} :
        /\ procs[q].key = procs[p].key
        /\ procs[q].pc = "returned"
        /\ procs[q].cacheCalls = 2
        /\ cache[procs[p].key].d = procs[q].ret

SearchErrorLeavesCache ==
    sr.pc = "raised" => sr.cacheCalls <= 1 /\ cache = EmptyCache

C24_SleepIsFollowedByGet ==
    fetchPc = "done" => Len(sleeps) < gets

(***************************************************************************)
(* Properties of the fetch-all loops                                       *)
(***************************************************************************)
MaxAll == IF fa.cmd = "fh" THEN MAX_ALL_FH ELSE MAX_ALL_FP

\* The request for a further page is made only below the limit and before
\* the last page (for !fp: before the end of the range reaches a reported
\* total).
FurtherPageWasDue ==
    (fa.pc = "await" /\ fa.cur > 1) =>
        /\ fa.n < MaxAll
        /\ fa.n >= fa.cur - 1
        /\ fa.cmd = "fh" => fa.cur - 1 < fa.pages
        /\ fa.cmd = "fp" => ~(fa.end > 0 /\ fa.total > 0 /\ fa.end >= fa.total)

\* C25: the fetch-all loops of !fh and !fp end whenever every page request
\* completes.  An iteration that stays in the loop adds at least one hit; a
\* further page is requested only while the hits are below MAX_ALL (1000
\* for !fh, 600 for !fp) and the last page or the total is not reached; at
\* most MAX_ALL hits become blocks.
C25_FetchAllTerminates ==
    /\ [](FurtherPageWasDue /\ fa.blocks <= MaxAll)
    /\ [][(fa.pc = "await" /\ fa'.pc = "await") => fa'.n > fa.n]_vars
    /\ (fa.pc = "await") ~> (fa.pc = "done")

\* A fetch-all run collected more hits than the limit and showed the limit.
C25_Witness ==
    /\ fa.pc = "done"
    /\ fa.fetch_all
    /\ fa.cur > 2
    /\ fa.n > MaxAll
    /\ fa.blocks = MaxAll

\* C28: in fetch-all mode of !fp the hits of the earlier pages are kept:
\* when the command ends after at least one page brought hits, it presents
\* the view with those hits, also when the request of a later page failed.
C28_CollectedHitsArePresented ==
    (fa.cmd = "fp" /\ fa.fetch_all /\ fa.pc = "done" /\ fa.n > 0) =>
        /\ fa.reply = "view"
        /\ fa.blocks = Min(fa.n, MAX_ALL_FP)

(***************************************************************************)
(* Properties of FHResultsView                                             *)
(***************************************************************************)
\* C26: the view keeps 0 <= page <= total_pages - 1 whatever buttons are
\* pressed, for any number of blocks and any per_page.  After a press that
\* was let through: first leaves page 0, last leaves total_pages - 1, prev
\* at page 0 and next at the last page leave the page as it was, and
\* otherwise prev and next move it by exactly one.
C26_PageStaysInRange ==
    /\ 0 <= view.page
    /\ view.page <= total_pages(view) - 1
    /\ view.press.ok =>
        /\ view.press.btn = "first" => view.page = 0
        /\ view.press.btn = "last" => view.page = total_pages(view) - 1
        /\ view.press.btn = "prev" =>
              view.page = IF view.press.page = 0 THEN 0 ELSE view.press.page - 1
        /\ view.press.btn = "next" =>
              view.page = IF view.press.page = total_pages(view) - 1
                          THEN view.press.page ELSE view.press.page + 1

\* On the last of three pages, next was pressed and let through.
C26_Witness ==
    /\ view.press.ok
    /\ view.press.btn = "next"
    /\ total_pages(view) = 3
    /\ view.press.page = 2
    /\ view.page = 2

\* stamps with the time t stored for u.
Stamped(stamps, u, t) == [x \in DOMAIN stamps \cup {u} |-> IF x = u THEN t ELSE stamps[x]]

\* C27: a press by user u is let through exactly when the view is not
\* locked to the author or u is the author, and at least 1.5 s passed since
\* the press of u that was last let through (any time, if there was none).
\* A press that is turned away changes neither the page nor any stored time;
\* a press let through stores its time for u and leaves the times of the
\* other users as they were.
C27_ClickGating ==
    view.press.user # "none" =>
        /\ view.press.ok <=>
              /\ ~view.locked_to_author \/ view.press.user = AUTHOR
              /\ \/ view.press.user \notin DOMAIN view.press.stamps
                 \/ view.press.at - view.press.stamps[view.press.user] >= COOLDOWN
        /\ view.press.ok =>
              view.last_click_per_user = Stamped(view.press.stamps, view.press.user, view.press.at)
        /\ ~view.press.ok =>
              /\ view.page = view.press.page
              /\ view.last_click_per_user = view.press.stamps

\* The guest was turned away inside the cooldown although the author had
\* pressed later and was let through.
C27_Witness ==
    /\ ~view.locked_to_author
    /\ view.press.user = "guest"
    /\ ~view.press.ok
    /\ DOMAIN view.last_click_per_user = ViewUsers
    /\ view.last_click_per_user[AUTHOR] > view.last_click_per_user["guest"]

(***************************************************************************)
(* Properties of the references of build_block                             *)
(***************************************************************************)
\* The lookup of coroutine p went past parse_ref: it answered from the
\* cache or sent a request.
Fetches(p) == procs[p].pc # "idle" /\ ~(procs[p].pc = "raised" /\ procs[p].exc = "ValueError")

\* The references of the books whose Polish abbreviation starts with a
\* letter are accepted by parse_ref.
LetterBooksAreParsed ==
    \A p \in Procs :
        (procs[p].pc # "idle" /\ ~IsDigit(procs[p].ref[1])) => Fetches(p)

\* C29: for every book code of USFM_TO_PL, the numbered books included, and
\* every chapter and verse, the reference that _pl_ref_from_usfm makes of
\* the verse id is accepted by parse_ref, so that the BT and BW lookups of
\* build_block get as far as their fetch.
C29_UsfmRefsAreParsed ==
    \A p \in Procs : \A kv \in USFM_TO_PL : \A c \in BlockChapters : \A v \in BlockVerses :
        (procs[p].pc # "idle" /\ procs[p].ref = BlockRefs[kv[1] \o <<".">> \o c \o <<".">> \o v])
        => Fetches(p)

(***************************************************************************)
(* Properties of _highlight_case_insensitive                               *)
(***************************************************************************)
\* The query words of the phrase in the order they are substituted.
QueryWords(needle) == LongestFirst(Words(StripWs(needle)))

\* The places of hay where re.sub finds w: a scan from the left that
\* resumes after each match.
RECURSIVE OccursFrom(_, _, _)
OccursFrom(hay, w, i) ==
    IF i + Len(w) - 1 > Len(hay) THEN {}
    ELSE IF HasPrefixCI(hay, i, w) THEN {i} \cup OccursFrom(hay, w, i + Len(w))
    ELSE OccursFrom(hay, w, i + 1)

\* t stands in out as one piece.
Holds(out, t) == \E i \in 1..(Len(out) - Len(t) + 1) : SubSeq(out, i, i + Len(t) - 1) = t

\* The first query word is no shorter than any other.
LongestWordGoesFirst ==
    (hl.fn = "_highlight_case_insensitive" /\ QueryWords(hl.needle) # <<>>)
    => \A k \in 1..Len(QueryWords(hl.needle)) :
            Len(QueryWords(hl.needle)[1]) >= Len(QueryWords(hl.needle)[k])

\* C30: every occurrence of the longest query word in the haystack is, in
\* the result of _highlight_case_insensitive, one contiguous span inside a
\* single pair of "**" markers: the substitutions of the later words put no
\* marker inside it.
C30_LongestWordIsOneSpan ==
    (hl.fn = "_highlight_case_insensitive" /\ hl.done /\ hl.hay # <<>> /\ QueryWords(hl.needle) # <<>>)
    => \A i \in OccursFrom(hl.hay, QueryWords(hl.needle)[1], 1) :
            Holds(hl.out, <<"*", "*">>
                          \o SubSeq(hl.hay, i, i + Len(QueryWords(hl.needle)[1]) - 1)
                          \o <<"*", "*">>)

====
